---- MODULE Spec2Model ----
(***************************************************************************)
(* SafeKeys-Core: the vault import/export envelope, the key string codec   *)
(* and the in-memory vault, as a state machine.                            *)
(*                                                                         *)
(* Text is a sequence of one-character strings, so that the code's string  *)
(* operations (startsWith, includes, charCodeAt, JSON.stringify,           *)
(* JSON.parse, btoa, atob) are computed character by character.            *)
(* A JavaScript value is a tagged record [t |-> tag, v |-> payload].       *)
(***************************************************************************)
EXTENDS Integers, Sequences, FiniteSets, TLC

(***************************************************************************)
(* Bounds of the model.                                                    *)
(***************************************************************************)
\* the entries a vault holds at most
MaxEntries == 2
\* the round trips a key makes at most through keyToString and stringToKey
MaxTrips == 3

(***************************************************************************)
(* String literals of the source, as character sequences.                  *)
(***************************************************************************)
S_id == <<"i", "d">>
S_name == <<"n", "a", "m", "e">>
S_entries == <<"e", "n", "t", "r", "i", "e", "s">>
S_createdAt == <<"c", "r", "e", "a", "t", "e", "d", "A", "t">>
S_updatedAt == <<"u", "p", "d", "a", "t", "e", "d", "A", "t">>
S_version == <<"v", "e", "r", "s", "i", "o", "n">>
S_title == <<"t", "i", "t", "l", "e">>
S_username == <<"u", "s", "e", "r", "n", "a", "m", "e">>
S_password == <<"p", "a", "s", "s", "w", "o", "r", "d">>
S_url == <<"u", "r", "l">>
S_notes == <<"n", "o", "t", "e", "s">>
S_tags == <<"t", "a", "g", "s">>
S_favorite == <<"f", "a", "v", "o", "r", "i", "t", "e">>
S_category == <<"c", "a", "t", "e", "g", "o", "r", "y">>
S_customFields == <<"c", "u", "s", "t", "o", "m", "F", "i", "e", "l", "d", "s">>
S_data == <<"d", "a", "t", "a">>
S_salt == <<"s", "a", "l", "t">>
S_iv == <<"i", "v">>
S_metadata == <<"m", "e", "t", "a", "d", "a", "t", "a">>
S_lastModified == <<"l", "a", "s", "t", "M", "o", "d", "i", "f", "i", "e", "d">>
S_entryCount == <<"e", "n", "t", "r", "y", "C", "o", "u", "n", "t">>
S_checksum == <<"c", "h", "e", "c", "k", "s", "u", "m">>
S_value == <<"v", "a", "l", "u", "e">>
S_type == <<"t", "y", "p", "e">>
S_hidden == <<"h", "i", "d", "d", "e", "n">>
S_true == <<"t", "r", "u", "e">>
S_false == <<"f", "a", "l", "s", "e">>
S_null == <<"n", "u", "l", "l">>
S_ImportedVault == <<"I", "m", "p", "o", "r", "t", "e", "d", " ", "V", "a", "u", "l", "t">>
S_ImportedCsvVault == <<"I", "m", "p", "o", "r", "t", "e", "d", " ", "C", "S", "V", " ", "V", "a", "u", "l", "t">>

\* the day every clock value of the model falls in, as toISOString prints it
S_IsoDay == <<"1", "9", "7", "0", "-", "0", "1", "-", "0", "1", "T">>

VAULT_VERSION == <<"1", ".", "0", ".", "0">>
SUPPORTED_VERSIONS == {VAULT_VERSION}

\* enum EntryCategory
EntryCategory == {
    <<"l", "o", "g", "i", "n">>,
    <<"s", "e", "c", "u", "r", "e", "_", "n", "o", "t", "e">>,
    <<"c", "r", "e", "d", "i", "t", "_", "c", "a", "r", "d">>,
    <<"i", "d", "e", "n", "t", "i", "t", "y">>,
    <<"s", "o", "f", "t", "w", "a", "r", "e", "_", "l", "i", "c", "e", "n", "s", "e">>,
    <<"b", "a", "n", "k", "_", "a", "c", "c", "o", "u", "n", "t">>,
    <<"o", "t", "h", "e", "r">> }
LOGIN == <<"l", "o", "g", "i", "n">>
SECURE_NOTE == <<"s", "e", "c", "u", "r", "e", "_", "n", "o", "t", "e">>

\* enum FieldType
FieldType == {
    <<"t", "e", "x", "t">>,
    <<"p", "a", "s", "s", "w", "o", "r", "d">>,
    <<"e", "m", "a", "i", "l">>,
    <<"u", "r", "l">>,
    <<"n", "u", "m", "b", "e", "r">>,
    <<"d", "a", "t", "e">>,
    <<"t", "e", "x", "t", "a", "r", "e", "a">> }
TEXT == <<"t", "e", "x", "t">>

(***************************************************************************)
(* Characters.                                                             *)
(***************************************************************************)
Digits == <<"0", "1", "2", "3", "4", "5", "6", "7", "8", "9">>
HexDigits == <<"0", "1", "2", "3", "4", "5", "6", "7", "8", "9",
               "a", "b", "c", "d", "e", "f">>
Lower == <<"a", "b", "c", "d", "e", "f", "g", "h", "i", "j", "k", "l", "m",
           "n", "o", "p", "q", "r", "s", "t", "u", "v", "w", "x", "y", "z">>
Upper == <<"A", "B", "C", "D", "E", "F", "G", "H", "I", "J", "K", "L", "M",
           "N", "O", "P", "Q", "R", "S", "T", "U", "V", "W", "X", "Y", "Z">>

Range(s) == {s[i] : i \in DOMAIN s}
DigitSet == Range(Digits)
LetterSet == Range(Lower) \cup Range(Upper)
IsDigit(c) == c \in DigitSet
DigitVal(c) == CHOOSE n \in 0..9 : Digits[n + 1] = c
IsLetter(c) == c \in LetterSet

\* the characters of codes 32 to 95 and 97 to 126, in code order
Ascii1 == <<" ", "!", "\"", "#", "$", "%", "&", "'", "(", ")", "*", "+", ",",
            "-", ".", "/">> \o Digits \o <<":", ";", "<", "=", ">", "?", "@">>
          \o Upper \o <<"[", "\\", "]", "^", "_">>
Ascii2 == Lower \o <<"{", "|", "}", "~">>
IndexIn(s, c) == CHOOSE i \in DOMAIN s : s[i] = c
CharCodes ==
    [c \in Range(Ascii1) \cup Range(Ascii2) |->
        IF c \in Range(Ascii1) THEN 31 + IndexIn(Ascii1, c)
        ELSE 96 + IndexIn(Ascii2, c)]
\* String.prototype.charCodeAt for the characters the model uses
charCodeAt(c) ==
    IF c = "\n" THEN 10
    ELSE IF c \in DOMAIN CharCodes THEN CharCodes[c]
    ELSE 233  \* the one non-ASCII character of the model, e-acute

\* String.prototype.startsWith
startsWith(s, p) == Len(s) >= Len(p) /\ SubSeq(s, 1, Len(p)) = p
\* String.prototype.includes
includes(s, p) ==
    \E i \in 1..(Len(s) - Len(p) + 1) : SubSeq(s, i, i + Len(p) - 1) = p

RECURSIVE ConcatRange(_, _, _)
\* ss[lo] \o ... \o ss[hi], halving the range to keep the evaluation shallow
ConcatRange(ss, lo, hi) ==
    IF lo > hi THEN <<>>
    ELSE IF lo = hi THEN ss[lo]
    ELSE LET mid == (lo + hi) \div 2 IN
         ConcatRange(ss, lo, mid) \o ConcatRange(ss, mid + 1, hi)
Concat(ss) == ConcatRange(ss, 1, Len(ss))

\* Array.prototype.join
JoinWith(ss, sep) ==
    Concat([i \in DOMAIN ss |-> IF i = 1 THEN ss[i] ELSE sep \o ss[i]])

(***************************************************************************)
(* JavaScript values.                                                      *)
(***************************************************************************)
JStr(s) == [t |-> "str", v |-> s]
JNum(n) == [t |-> "num", v |-> n]
JBool(b) == [t |-> "bool", v |-> b]
JNull == [t |-> "null", v |-> 0]
JUndef == [t |-> "undef", v |-> 0]
JArr(a) == [t |-> "arr", v |-> a]
\* an object is the sequence of its <<key, value>> properties in insertion order
JObj(o) == [t |-> "obj", v |-> o]
\* a Date holds its time value in milliseconds; NaNTime is an Invalid Date
NaNTime == -1
JDate(ms) == [t |-> "date", v |-> ms]

IsObj(x) == x.t = "obj"
IsStr(x) == x.t = "str"
HasKey(o, k) == \E i \in DOMAIN o.v : o.v[i][1] = k
\* o[k]; undefined when the property is absent
Get(o, k) ==
    IF HasKey(o, k) THEN o.v[CHOOSE i \in DOMAIN o.v : o.v[i][1] = k][2]
    ELSE JUndef
\* o[k] = x: replaces in place or appends
Put(o, k, x) ==
    IF HasKey(o, k)
    THEN JObj([i \in DOMAIN o.v |-> IF o.v[i][1] = k THEN <<k, x>> ELSE o.v[i]])
    ELSE JObj(Append(o.v, <<k, x>>))
\* JavaScript truthiness
Truthy(x) ==
    CASE x.t = "undef" -> FALSE
      [] x.t = "null" -> FALSE
      [] x.t = "bool" -> x.v
      [] x.t = "num" -> x.v # 0
      [] x.t = "str" -> x.v # <<>>
      [] OTHER -> TRUE

(***************************************************************************)
(* Dates.  Every clock value of the model lies within the day S_IsoDay, so *)
(* a time value is the millisecond of that day.                            *)
(***************************************************************************)
Pad2(n) == <<Digits[(n \div 10) + 1], Digits[(n % 10) + 1]>>
Pad3(n) == <<Digits[(n \div 100) + 1]>> \o Pad2(n % 100)

\* the same text without the milliseconds
toISOStringSeconds(ms) ==
    S_IsoDay \o Pad2(ms \div 3600000) \o <<":">>
             \o Pad2((ms \div 60000) % 60) \o <<":">>
             \o Pad2((ms \div 1000) % 60) \o <<"Z">>

\* Date.prototype.toISOString: YYYY-MM-DDTHH:mm:ss.sssZ
toISOString(ms) ==
    S_IsoDay \o Pad2(ms \div 3600000) \o <<":">>
             \o Pad2((ms \div 60000) % 60) \o <<":">>
             \o Pad2((ms \div 1000) % 60) \o <<".">>
             \o Pad3(ms % 1000) \o <<"Z">>

Num2(s, i) == DigitVal(s[i]) * 10 + DigitVal(s[i + 1])
\* new Date(string): the time value of an ISO string of that day, NaN for
\* any other text
DateParse(s) ==
    IF /\ Len(s) = 24
       /\ SubSeq(s, 1, 11) = S_IsoDay
       /\ \A i \in {12, 13, 15, 16, 18, 19, 21, 22, 23} : IsDigit(s[i])
       /\ s[14] = ":" /\ s[17] = ":" /\ s[20] = "." /\ s[24] = "Z"
       /\ Num2(s, 12) < 24 /\ Num2(s, 15) < 60 /\ Num2(s, 18) < 60
    THEN Num2(s, 12) * 3600000 + Num2(s, 15) * 60000 + Num2(s, 18) * 1000
         + DigitVal(s[21]) * 100 + Num2(s, 22)
    ELSE NaNTime

(***************************************************************************)
(* JSON.stringify and JSON.parse.                                          *)
(***************************************************************************)
RECURSIVE NumText(_)
\* Number.prototype.toString for a non-negative integer
NumText(n) ==
    IF n < 10 THEN <<Digits[n + 1]>>
    ELSE NumText(n \div 10) \o <<Digits[(n % 10) + 1]>>

\* the characters JSON.stringify writes for each character of a string
EscapeChars(s) ==
    Concat([i \in DOMAIN s |->
        CASE s[i] = "\"" -> <<"\\", "\"">>
          [] s[i] = "\\" -> <<"\\", "\\">>
          [] s[i] = "\n" -> <<"\\", "n">>
          [] OTHER -> <<s[i]>>])
Quote(s) == <<"\"">> \o EscapeChars(s) \o <<"\"">>

JoinComma(ss) == JoinWith(ss, <<",">>)

\* a property whose value is undefined is left out of the JSON text
Defined(o) == SelectSeq(o, LAMBDA p : p[2].t # "undef")

RECURSIVE JSONstringify(_)
\* JSON.stringify(x) without indentation
JSONstringify(x) ==
    CASE x.t = "str" -> Quote(x.v)
      [] x.t = "num" -> NumText(x.v)
      [] x.t = "bool" -> IF x.v THEN S_true ELSE S_false
      [] x.t = "null" -> S_null
      [] x.t = "undef" -> S_null
      [] x.t = "date" ->
           IF x.v = NaNTime THEN S_null ELSE Quote(toISOString(x.v))
      [] x.t = "arr" ->
           <<"[">> \o JoinComma([i \in DOMAIN x.v |-> JSONstringify(x.v[i])])
                   \o <<"]">>
      [] x.t = "obj" ->
           <<"{">> \o JoinComma([i \in DOMAIN Defined(x.v) |->
                          Quote(Defined(x.v)[i][1]) \o <<":">>
                          \o JSONstringify(Defined(x.v)[i][2])])
                   \o <<"}">>

\* A parse step yields [ok, val, pos]: the value read and the index after it.
PFail == [ok |-> FALSE, val |-> JNull, pos |-> 0]
POk(x, i) == [ok |-> TRUE, val |-> x, pos |-> i]
At(s, i) == IF i <= Len(s) THEN s[i] ELSE "EOF"

\* the number of consecutive backslashes that end just before index j,
\* counted back no further than index i
BackslashRun(s, i, j) ==
    CHOOSE k \in 0..(j - i) :
        /\ \A m \in 1..k : s[j - m] = "\\"
        /\ k = j - i \/ s[j - k - 1] # "\\"

\* the quote at j closes the string literal that starts at i: an even run of
\* backslashes precedes it
Closes(s, i, j) == s[j] = "\"" /\ BackslashRun(s, i, j) % 2 = 0
\* a backslash that starts an escape
Starts(s, i, p) == s[p] = "\\" /\ BackslashRun(s, i, p) % 2 = 0

\* what the characters from i up to the index before end stand for
Unescaped(s, i, end) ==
    [p \in 1..(end - i) |->
        IF Starts(s, i, i + p - 1) THEN "skip"
        ELSE IF p > 1 /\ Starts(s, i, i + p - 2)
        THEN (CASE s[i + p - 1] = "\"" -> "\""
                [] s[i + p - 1] = "\\" -> "\\"
                [] s[i + p - 1] = "n" -> "\n"
                [] OTHER -> "bad")
        ELSE IF s[i + p - 1] = "\n" THEN "bad" ELSE s[i + p - 1]]

CharsUpTo(acc, chars, end) ==
    IF "bad" \in Range(chars) THEN PFail
    ELSE POk(JStr(acc \o SelectSeq(chars, LAMBDA c : c # "skip")), end + 1)

CharsFrom(s, i, acc, end) == CharsUpTo(acc, Unescaped(s, i, end), end)

\* the characters of a string literal, from index i up to the closing quote
ParseChars(s, i, acc) ==
    IF ~(\E j \in i..Len(s) : Closes(s, i, j)) THEN PFail
    ELSE CharsFrom(s, i, acc,
             CHOOSE j \in i..Len(s) :
                 Closes(s, i, j) /\ \A k \in i..(j - 1) : ~Closes(s, i, k))

RECURSIVE ParseDigits(_, _, _)
ParseDigits(s, i, n) ==
    IF IsDigit(At(s, i)) THEN ParseDigits(s, i + 1, n * 10 + DigitVal(s[i]))
    ELSE POk(JNum(n), i)

Literal(s, i, word, x) ==
    IF i + Len(word) - 1 <= Len(s) /\ SubSeq(s, i, i + Len(word) - 1) = word
    THEN POk(x, i + Len(word))
    ELSE PFail

\* the index of the first character at or after i that is not white space
Ws(s, i) ==
    CHOOSE j \in i..(Len(s) + 1) :
        /\ At(s, j) \notin {" ", "\n"}
        /\ \A k \in i..(j - 1) : s[k] \in {" ", "\n"}

RECURSIVE ParseValue(_, _), ParseElements(_, _, _), ParseMembers(_, _, _)
\* after the element e of an array: a comma and the next element, or the end
ElementsNext(s, acc, e) ==
    IF ~e.ok THEN PFail
    ELSE CASE At(s, Ws(s, e.pos)) = "," ->
                ParseElements(s, Ws(s, e.pos) + 1, Append(acc, e.val))
           [] At(s, Ws(s, e.pos)) = "]" ->
                POk(JArr(Append(acc, e.val)), Ws(s, e.pos) + 1)
           [] OTHER -> PFail

ParseElements(s, i, acc) == ElementsNext(s, acc, ParseValue(s, i))

\* after the value e of the member key: a comma and the next member, or the end
MemberNext(s, acc, key, e) ==
    IF ~e.ok THEN PFail
    ELSE CASE At(s, Ws(s, e.pos)) = "," ->
                ParseMembers(s, Ws(s, e.pos) + 1, Put(acc, key, e.val))
           [] At(s, Ws(s, e.pos)) = "}" ->
                POk(Put(acc, key, e.val), Ws(s, e.pos) + 1)
           [] OTHER -> PFail

\* after the key k of a member: a colon and the value
MemberValue(s, acc, k) ==
    IF ~k.ok \/ At(s, Ws(s, k.pos)) # ":" THEN PFail
    ELSE MemberNext(s, acc, k.val.v, ParseValue(s, Ws(s, k.pos) + 1))

ParseMembers(s, i, acc) ==
    IF At(s, Ws(s, i)) # "\"" THEN PFail
    ELSE MemberValue(s, acc, ParseChars(s, Ws(s, i) + 1, <<>>))

\* the value that starts with the character c at index i
ParseValueAt(s, i, c) ==
    CASE c = "\"" -> ParseChars(s, i + 1, <<>>)
      [] c = "{" ->
           IF At(s, Ws(s, i + 1)) = "}" THEN POk(JObj(<<>>), Ws(s, i + 1) + 1)
           ELSE ParseMembers(s, i + 1, JObj(<<>>))
      [] c = "[" ->
           IF At(s, Ws(s, i + 1)) = "]" THEN POk(JArr(<<>>), Ws(s, i + 1) + 1)
           ELSE ParseElements(s, i + 1, <<>>)
      [] c = "t" -> Literal(s, i, S_true, JBool(TRUE))
      [] c = "f" -> Literal(s, i, S_false, JBool(FALSE))
      [] c = "n" -> Literal(s, i, S_null, JNull)
      [] IsDigit(c) ->
           IF c = "0" /\ IsDigit(At(s, i + 1)) THEN PFail
           ELSE ParseDigits(s, i, 0)
      [] OTHER -> PFail

ParseValue(s, i) == ParseValueAt(s, Ws(s, i), At(s, Ws(s, i)))

\* the whole text must be one value
ParseEnd(s, r) == IF r.ok /\ Ws(s, r.pos) = Len(s) + 1 THEN r ELSE PFail

\* JSON.parse(s): [ok |-> FALSE] stands for the SyntaxError it throws
JSONparse(s) == ParseEnd(s, ParseValue(s, 1))

Indent(d) == [i \in 1..(2 * d) |-> " "]

RECURSIVE JSONstringify2(_, _)
\* JSON.stringify(x, null, 2), x at nesting depth d
JSONstringify2(x, d) ==
    CASE x.t = "arr" /\ x.v # <<>> ->
           <<"[", "\n">> \o Indent(d + 1)
           \o JoinWith([i \in DOMAIN x.v |-> JSONstringify2(x.v[i], d + 1)],
                       <<",", "\n">> \o Indent(d + 1))
           \o <<"\n">> \o Indent(d) \o <<"]">>
      [] x.t = "obj" /\ Defined(x.v) # <<>> ->
           <<"{", "\n">> \o Indent(d + 1)
           \o JoinWith([i \in DOMAIN Defined(x.v) |->
                          Quote(Defined(x.v)[i][1]) \o <<":", " ">>
                          \o JSONstringify2(Defined(x.v)[i][2], d + 1)],
                       <<",", "\n">> \o Indent(d + 1))
           \o <<"\n">> \o Indent(d) \o <<"}">>
      [] OTHER -> JSONstringify(x)

(***************************************************************************)
(* Schemas (zod) and the entry validator.                                  *)
(***************************************************************************)
IsAlnum(c) == IsLetter(c) \/ IsDigit(c)
IndexOf(s, c) == IF c \in Range(s) THEN CHOOSE i \in DOMAIN s :
                      s[i] = c /\ \A j \in 1..(i - 1) : s[j] # c ELSE 0
LastIndexOf(s, c) == IF c \in Range(s) THEN CHOOSE i \in DOMAIN s :
                      s[i] = c /\ \A j \in (i + 1)..Len(s) : s[j] # c ELSE 0

\* z.string().email(): one "@", a local part, a dotted domain that ends in
\* at least two letters
IsEmail(s) ==
    LET at == IndexOf(s, "@")
        local == SubSeq(s, 1, at - 1)
        domain == SubSeq(s, at + 1, Len(s))
        dot == LastIndexOf(domain, ".")
    IN /\ at > 1 /\ at = LastIndexOf(s, "@")
       /\ \A i \in DOMAIN local : IsAlnum(local[i]) \/ local[i] \in {".", "_", "+", "-", "'"}
       /\ local[1] # "." /\ local[Len(local)] # "."
       /\ dot > 1 /\ Len(domain) - dot >= 2
       /\ \A i \in (dot + 1)..Len(domain) : IsLetter(domain[i])
       /\ IsAlnum(domain[1])
       /\ \A i \in 1..(dot - 1) : IsAlnum(domain[i]) \/ domain[i] \in {"-", "."}

\* z.string().url(): new URL(s) succeeds: a scheme, a colon and, for http and
\* https, a host
IsUrl(s) ==
    LET colon == IndexOf(s, ":")
        scheme == SubSeq(s, 1, colon - 1)
        rest == SubSeq(s, colon + 1, Len(s))
    IN /\ colon > 1 /\ IsLetter(s[1])
       /\ \A i \in DOMAIN scheme : IsAlnum(scheme[i]) \/ scheme[i] \in {"+", "-", "."}
       /\ scheme \in {<<"h", "t", "t", "p">>, <<"h", "t", "t", "p", "s">>}
            => \E i \in DOMAIN rest : rest[i] \notin {"/", "\\"} /\ \A j \in 1..(i - 1) : rest[j] \in {"/", "\\"}

\* !isNaN(Number(s)) for a non-empty string of the model: decimal digits
IsNumeric(s) == \A i \in DOMAIN s : IsDigit(s[i])

IsStrMin1(x) == x.t = "str" /\ Len(x.v) >= 1
OptionalOf(x, ok) == x.t = "undef" \/ ok
\* a valid Date instance (z.date rejects an Invalid Date)
IsValidDate(x) == x.t = "date" /\ x.v # NaNTime

\* usernameSchema
usernameSchema(x) ==
    OptionalOf(x, x.t = "str" /\ (includes(x.v, <<"@">>) => IsEmail(x.v)))
\* urlSchema
urlSchema(x) == OptionalOf(x, x.t = "str" /\ IsUrl(x.v))

\* customFieldSchema
customFieldSchema(f) ==
    /\ f.t = "obj"
    /\ IsStrMin1(Get(f, S_id))
    /\ IsStrMin1(Get(f, S_name))
    /\ Get(f, S_value).t = "str"
    /\ Get(f, S_type).t = "str" /\ Get(f, S_type).v \in FieldType
    /\ OptionalOf(Get(f, S_hidden), Get(f, S_hidden).t = "bool")
    /\ LET value == Get(f, S_value).v
           type == Get(f, S_type).v
       IN CASE type = <<"e", "m", "a", "i", "l">> /\ value # <<>> -> IsEmail(value)
            [] type = <<"u", "r", "l">> /\ value # <<>> -> IsUrl(value)
            [] type = <<"n", "u", "m", "b", "e", "r">> /\ value # <<>> -> IsNumeric(value)
            [] OTHER -> TRUE

\* vaultEntrySchema.safeParse(entry).success
vaultEntrySchema(e) ==
    /\ e.t = "obj"
    /\ IsStrMin1(Get(e, S_id))
    /\ IsStrMin1(Get(e, S_title))
    /\ usernameSchema(Get(e, S_username))
    /\ OptionalOf(Get(e, S_password), Get(e, S_password).t = "str")
    /\ urlSchema(Get(e, S_url))
    /\ OptionalOf(Get(e, S_notes), Get(e, S_notes).t = "str")
    /\ OptionalOf(Get(e, S_tags),
           Get(e, S_tags).t = "arr"
           /\ \A i \in DOMAIN Get(e, S_tags).v : Get(e, S_tags).v[i].t = "str")
    /\ OptionalOf(Get(e, S_favorite), Get(e, S_favorite).t = "bool")
    /\ OptionalOf(Get(e, S_category),
           Get(e, S_category).t = "str" /\ Get(e, S_category).v \in EntryCategory)
    /\ OptionalOf(Get(e, S_customFields),
           Get(e, S_customFields).t = "arr"
           /\ \A i \in DOMAIN Get(e, S_customFields).v :
                  customFieldSchema(Get(e, S_customFields).v[i]))
    /\ IsValidDate(Get(e, S_createdAt))
    /\ IsValidDate(Get(e, S_updatedAt))

\* property access x[k] on any value; reading a property of null or undefined
\* throws a TypeError
Prop(x, k) == IF x.t = "obj" THEN Get(x, k) ELSE JUndef
PropThrows(x) == x.t \in {"null", "undef"}

\* validateVaultEntry(entry): threw stands for the TypeError raised by
\* extractPasswordWarnings on null or undefined and by
\* extractUsernameWarnings when username is truthy and has no includes method
validateVaultEntry(entry) ==
    LET username == Prop(entry, S_username) IN
    [threw |-> \/ PropThrows(entry)
               \/ (Truthy(username) /\ username.t \notin {"str", "arr"}),
     isValid |-> vaultEntrySchema(entry)]

\* vaultFileSchema.safeParse(parsedData).success
vaultFileSchema(d) ==
    /\ d.t = "obj"
    /\ Get(d, S_data).t = "str"
    /\ Get(d, S_salt).t = "str"
    /\ Get(d, S_iv).t = "str"
    /\ Get(d, S_version).t = "str"
    /\ LET m == Get(d, S_metadata) IN
       OptionalOf(m,
           /\ m.t = "obj"
           /\ Get(m, S_name).t = "str"
           /\ Get(m, S_createdAt).t = "str"
           /\ Get(m, S_lastModified).t = "str"
           /\ Get(m, S_entryCount).t = "num"
           /\ OptionalOf(Get(m, S_checksum), Get(m, S_checksum).t = "str"))

(***************************************************************************)
(* vault/io: serialisation, checksum.                                      *)
(***************************************************************************)
\* { ...x }: the own enumerable properties of x
Spread(x) ==
    CASE x.t = "obj" -> x
      [] x.t = "arr" -> JObj([i \in DOMAIN x.v |-> <<NumText(i - 1), x.v[i]>>])
      [] x.t = "str" -> JObj([i \in DOMAIN x.v |-> <<NumText(i - 1), JStr(<<x.v[i]>>)>>])
      [] OTHER -> JObj(<<>>)

\* if (o[k] instanceof Date) o[k] = o[k].toISOString()
SerializeDate(o, k) ==
    IF Get(o, k).t = "date" THEN Put(o, k, JStr(toISOString(Get(o, k).v))) ELSE o
SerializeDates(o) == SerializeDate(SerializeDate(o, S_createdAt), S_updatedAt)

\* if (typeof o[k] === "string") o[k] = new Date(o[k])
DeserializeDate(o, k) ==
    IF Get(o, k).t = "str" THEN Put(o, k, JDate(DateParse(Get(o, k).v))) ELSE o
\* the conversion with updatedAt forgotten
DeserializeCreatedAt(o) == DeserializeDate(o, S_createdAt)
DeserializeDates(o) == DeserializeDate(DeserializeDate(o, S_createdAt), S_updatedAt)

\* toISOString throws a RangeError on an Invalid Date
HasInvalidDate(o) ==
    \E k \in {S_createdAt, S_updatedAt} :
        Get(o, k).t = "date" /\ Get(o, k).v = NaNTime

\* serializeVault once the vault-level dates are done: the entries
SerializeEntries(serialized) ==
    IF Get(serialized, S_entries).t = "arr"
    THEN Put(serialized, S_entries,
             JArr([i \in DOMAIN Get(serialized, S_entries).v |->
                      SerializeDates(Spread(Get(serialized, S_entries).v[i]))]))
    ELSE serialized

\* serializeVault(vault): [threw, val]
serializeVault(vault) ==
    IF \/ HasInvalidDate(Spread(vault))
       \/ (Get(Spread(vault), S_entries).t = "arr"
           /\ \E i \in DOMAIN Get(Spread(vault), S_entries).v :
                  HasInvalidDate(Spread(Get(Spread(vault), S_entries).v[i])))
    THEN [threw |-> TRUE, val |-> JUndef]
    ELSE [threw |-> FALSE, val |-> SerializeEntries(SerializeDates(Spread(vault)))]

\* deserializeVault once the vault-level dates are done: the entries
DeserializeEntries(deserialized) ==
    IF Get(deserialized, S_entries).t = "arr"
    THEN Put(deserialized, S_entries,
             JArr([i \in DOMAIN Get(deserialized, S_entries).v |->
                      DeserializeDates(Spread(Get(deserialized, S_entries).v[i]))]))
    ELSE deserialized

\* deserializeVault(vault)
deserializeVault(vault) == DeserializeEntries(DeserializeDates(Spread(vault)))

\* A 32-bit integer is kept as two 16-bit halves <<hi, lo>>.
Half == 65536
\* hash = ((hash << 5) - hash + code) | 0
HashStep(h, code) ==
    <<(31 * h[1] + ((31 * h[2] + code) \div Half)) % Half,
      (31 * h[2] + code) % Half>>

RECURSIVE HashRange(_, _, _, _)
\* the right half of a range, once the hash of the left half is known
HashRight(data, mid, hi, left) ==
    IF left[1] >= 0 THEN HashRange(data, mid + 1, hi, left) ELSE left

\* the loop of calculateChecksum over data[lo..hi] from the hash h, one
\* character after the other; the range is halved to keep the evaluation
\* shallow
HashRange(data, lo, hi, h) ==
    IF lo > hi THEN h
    ELSE IF lo = hi THEN HashStep(h, charCodeAt(data[lo]))
    ELSE HashRight(data, (lo + hi) \div 2, hi,
                   HashRange(data, lo, (lo + hi) \div 2, h))

\* Math.abs of the signed 32-bit value <<hi, lo>>
Abs32(h) ==
    IF h[1] < 32768 THEN h
    ELSE <<(65535 - h[1] + (IF h[2] = 0 THEN 1 ELSE 0)) % Half,
           (Half - h[2]) % Half>>

RECURSIVE HexText(_)
HexText(n) ==
    IF n < 16 THEN <<HexDigits[n + 1]>>
    ELSE HexText(n \div 16) \o <<HexDigits[(n % 16) + 1]>>
Hex4(n) == <<HexDigits[(n \div 4096) + 1], HexDigits[((n \div 256) % 16) + 1],
             HexDigits[((n \div 16) % 16) + 1], HexDigits[(n % 16) + 1]>>

\* Math.abs(hash).toString(16)
HashText(a) == IF a[1] = 0 THEN HexText(a[2]) ELSE HexText(a[1]) \o Hex4(a[2])

\* calculateChecksum(data)
calculateChecksum(data) ==
    HashText(Abs32(HashRange(data, 1, Len(data), <<0, 0>>)))

(***************************************************************************)
(* vault/io: CSV.                                                          *)
(***************************************************************************)
CsvHeaders == <<S_title, S_username, S_password, S_url, S_notes, S_category,
                S_tags, S_favorite>>

\* String(x)
ToStr(x) ==
    CASE x.t = "str" -> x.v
      [] x.t = "num" -> NumText(x.v)
      [] x.t = "bool" -> IF x.v THEN S_true ELSE S_false
      [] x.t = "null" -> S_null
      [] x.t = "undef" -> <<"u", "n", "d", "e", "f", "i", "n", "e", "d">>
      [] x.t = "arr" -> JoinWith([i \in DOMAIN x.v |->
                            IF x.v[i].t \in {"null", "undef"} THEN <<>>
                            ELSE IF x.v[i].t = "str" THEN x.v[i].v
                            ELSE <<"?">>], <<",">>)
      [] OTHER -> <<"[", "o", "b", "j", "e", "c", "t", " ", "O", "b", "j", "e", "c", "t", "]">>

\* a || b
OrElse(a, b) == IF Truthy(a) THEN a ELSE b

\* strValue.replace(/"/g, '""')
DoubleQuotes(s) ==
    Concat([i \in DOMAIN s |->
        IF s[i] = "\"" THEN <<"\"", "\"">> ELSE <<s[i]>>])

\* the same without replace(/"/g, '""')
EscapeStrUndoubled(strValue) ==
    IF \E i \in DOMAIN strValue : strValue[i] \in {"\"", ",", "\n", "\r"}
    THEN <<"\"">> \o strValue \o <<"\"">>
    ELSE strValue

\* escapeCSV once String(value) is known
EscapeStr(strValue) ==
    IF \E i \in DOMAIN strValue : strValue[i] \in {"\"", ",", "\n", "\r"}
    THEN <<"\"">> \o DoubleQuotes(strValue) \o <<"\"">>
    ELSE strValue

\* escapeCSV(value)
escapeCSV(value) ==
    IF value.t \in {"null", "undef"} THEN <<>> ELSE EscapeStr(ToStr(value))

\* one turn of the loop of parseCSVLine, at the character line[i]; st holds
\* the loop variables result, current and inQuotes, and skip when i++ has
\* consumed the character
ParseCSVChar(line, i, st) ==
    IF st.skip THEN [st EXCEPT !.skip = FALSE]
    ELSE IF line[i] = "\"" THEN
           IF st.inQuotes /\ i < Len(line) /\ line[i + 1] = "\""
           THEN [st EXCEPT !.current = Append(@, "\""), !.skip = TRUE]
           ELSE [st EXCEPT !.inQuotes = ~@]
    ELSE IF line[i] = "," /\ ~st.inQuotes
    THEN [st EXCEPT !.result = Append(@, st.current), !.current = <<>>]
    ELSE [st EXCEPT !.current = Append(@, line[i])]

RECURSIVE ParseCSVRange(_, _, _, _)
\* the right half of a range, once the left half is done
ParseCSVRight(line, mid, hi, left) ==
    IF left.skip \in BOOLEAN THEN ParseCSVRange(line, mid + 1, hi, left) ELSE left

\* the loop of parseCSVLine over line[lo..hi]; the range is halved to keep
\* the evaluation shallow
ParseCSVRange(line, lo, hi, st) ==
    IF lo > hi THEN st
    ELSE IF lo = hi THEN ParseCSVChar(line, lo, st)
    ELSE ParseCSVRight(line, (lo + hi) \div 2, hi,
                       ParseCSVRange(line, lo, (lo + hi) \div 2, st))

\* return result after result.push(current)
CsvResult(st) == Append(st.result, st.current)

\* parseCSVLine(line)
parseCSVLine(line) ==
    CsvResult(ParseCSVRange(line, 1, Len(line),
                  [result |-> <<>>, current |-> <<>>, inQuotes |-> FALSE,
                   skip |-> FALSE]))

\* tags.join(";")
JoinTags(tags) == JStr(JoinWith([i \in DOMAIN tags.v |-> ToStr(tags.v[i])], <<";">>))
TagsText(tags) == IF Truthy(tags) THEN JoinTags(tags) ELSE JStr(<<>>)

\* the CSV row of one entry in convertVaultToCsv
CsvRow(entry) ==
    JoinWith(<<escapeCSV(Prop(entry, S_title)),
               escapeCSV(OrElse(Prop(entry, S_username), JStr(<<>>))),
               escapeCSV(OrElse(Prop(entry, S_password), JStr(<<>>))),
               escapeCSV(OrElse(Prop(entry, S_url), JStr(<<>>))),
               escapeCSV(OrElse(Prop(entry, S_notes), JStr(<<>>))),
               escapeCSV(OrElse(Prop(entry, S_category), JStr(<<>>))),
               escapeCSV(TagsText(Prop(entry, S_tags))),
               ToStr(OrElse(Prop(entry, S_favorite), JBool(FALSE)))>>, <<",">>)

\* iterating entries that are not an array, or reading a field of a null
\* entry, or joining tags that are no array, throws a TypeError
CsvThrows(entries) ==
    \/ entries.t # "arr"
    \/ \E i \in DOMAIN entries.v :
         \/ PropThrows(entries.v[i])
         \/ (Truthy(Prop(entries.v[i], S_tags))
             /\ Prop(entries.v[i], S_tags).t # "arr")

CsvText(entries) ==
    JoinWith(CsvHeaders, <<",">>) \o <<"\n">>
    \o Concat([i \in DOMAIN entries.v |-> CsvRow(entries.v[i]) \o <<"\n">>])

\* convertVaultToCsv(vault): [threw, text]
convertVaultToCsv(vault) ==
    IF CsvThrows(Get(vault, S_entries)) THEN [threw |-> TRUE, text |-> <<>>]
    ELSE [threw |-> FALSE, text |-> CsvText(Get(vault, S_entries))]

\* s.split(sep) for a one-character separator
SplitOn(s, sep) ==
    LET at == {i \in DOMAIN s : s[i] = sep}
        \* the position of the k-th separator; 0 and Len(s) + 1 close the ends
        Pos(k) == IF k = 0 THEN 0
                  ELSE IF k > Cardinality(at) THEN Len(s) + 1
                  ELSE CHOOSE i \in at : Cardinality({j \in at : j < i}) = k - 1
    IN [k \in 1..(Cardinality(at) + 1) |-> SubSeq(s, Pos(k - 1) + 1, Pos(k) - 1)]

IsSpace(c) == c \in {" ", "\n", "\r", "\t"}
TrimStart(s) ==
    SubSeq(s, CHOOSE j \in 1..(Len(s) + 1) :
                  /\ j = Len(s) + 1 \/ ~IsSpace(s[j])
                  /\ \A k \in 1..(j - 1) : IsSpace(s[k]), Len(s))
TrimEnd(s) ==
    SubSeq(s, 1, CHOOSE j \in 0..Len(s) :
                     /\ j = 0 \/ ~IsSpace(s[j])
                     /\ \A k \in (j + 1)..Len(s) : IsSpace(s[k]))
\* String.prototype.trim
trim(s) == TrimEnd(TrimStart(s))

(***************************************************************************)
(* crypto/encryption: aes_gcm_encrypt and aes_gcm_decrypt as an ideal      *)
(* authenticated cipher.  sealed is the record of every encryption made:   *)
(* the n-th call returns the ciphertext string CipherText(n), which carries *)
(* its own fresh salt and nonce, and only that string, under the password  *)
(* of that call, decrypts; every other string or password is rejected.     *)
(***************************************************************************)
CipherText(n) == <<"c", "t">> \o NumText(n)

\* a cipher that opens under any password
decryptVaultUnkeyed(cipherText, password, sealed) ==
    LET hit == {n \in DOMAIN sealed : CipherText(n) = cipherText}
    IN IF hit = {} THEN [threw |-> TRUE, text |-> <<>>]
       ELSE [threw |-> FALSE, text |-> sealed[CHOOSE n \in hit : TRUE].plainText]

\* decryptVault(cipherText, password): [threw, text]
decryptVault(cipherText, password, sealed) ==
    LET hit == {n \in DOMAIN sealed :
                   CipherText(n) = cipherText /\ sealed[n].password = password}
    IN IF hit = {} THEN [threw |-> TRUE, text |-> <<>>]
       ELSE [threw |-> FALSE, text |-> sealed[CHOOSE n \in hit : TRUE].plainText]

(***************************************************************************)
(* vault/io: export.                                                       *)
(***************************************************************************)
\* the outcome of an export: it rejects with error, or it resolves to text;
\* encrypts says whether encryptVault was called, and plainText with what
E_ExportPassword == "Master password is required for encrypted vault export"
E_TypeError == "TypeError"
E_RangeError == "RangeError: Invalid time value"
Thrown(error) ==
    [threw |-> TRUE, error |-> error, text |-> <<>>, encrypts |-> FALSE,
     plainText |-> <<>>]
Returned(text) ==
    [threw |-> FALSE, error |-> "", text |-> text, encrypts |-> FALSE,
     plainText |-> <<>>]

\* x.length on a value that has one; reading it on null or undefined throws
HasLength(x) == x.t \in {"arr", "str"}

\* the date text of the envelope metadata
MetaDate(x, now) ==
    IF x.t = "str" THEN x
    ELSE IF x.t = "date" THEN JStr(toISOString(x.v))
    ELSE JStr(toISOString(now))

\* the same object with lastModified read from createdAt
EncryptedVaultCreatedAt(vault, entries, cipherText, checksum, now) ==
    JObj(<< <<S_data, JStr(cipherText)>>,
            <<S_salt, JStr(<<>>)>>,
            <<S_iv, JStr(<<>>)>>,
            <<S_version, JStr(VAULT_VERSION)>>,
            <<S_metadata,
              JObj(<< <<S_name, Get(vault, S_name)>>,
                      <<S_createdAt, MetaDate(Get(vault, S_createdAt), now)>>,
                      <<S_lastModified, MetaDate(Get(vault, S_createdAt), now)>>,
                      <<S_entryCount,
                        IF HasLength(entries) THEN JNum(Len(entries.v))
                        ELSE JUndef>>,
                      <<S_checksum, JStr(checksum)>> >>)>> >>)

\* the EncryptedVault object exportEncryptedVault builds
EncryptedVault(vault, entries, cipherText, checksum, now) ==
    JObj(<< <<S_data, JStr(cipherText)>>,
            <<S_salt, JStr(<<>>)>>,
            <<S_iv, JStr(<<>>)>>,
            <<S_version, JStr(VAULT_VERSION)>>,
            <<S_metadata,
              JObj(<< <<S_name, Get(vault, S_name)>>,
                      <<S_createdAt, MetaDate(Get(vault, S_createdAt), now)>>,
                      <<S_lastModified, MetaDate(Get(vault, S_updatedAt), now)>>,
                      <<S_entryCount,
                        IF HasLength(entries) THEN JNum(Len(entries.v))
                        ELSE JUndef>>,
                      <<S_checksum, JStr(checksum)>> >>)>> >>)

\* exportEncryptedVault once JSON.stringify(serializedVault) is known:
\* encryptVault gets plainText and returns cipherText, and vault.entries.length
\* throws when entries is null or undefined
ExportText(vault, entries, plainText, encrypted, cipherText, now) ==
    IF ~encrypted THEN Returned(plainText)
    ELSE IF entries.t \in {"null", "undef"}
    THEN [Thrown(E_TypeError) EXCEPT !.encrypts = TRUE, !.plainText = plainText]
    ELSE [threw |-> FALSE, error |-> "",
          text |-> JSONstringify(EncryptedVault(vault, entries, cipherText,
                                     calculateChecksum(plainText), now)),
          encrypts |-> TRUE, plainText |-> plainText]

\* exportEncryptedVault once serializeVault(vault) has run
ExportSerialized(vault, serializedVault, encrypted, cipherText, now) ==
    IF serializedVault.threw THEN Thrown(E_RangeError)
    ELSE ExportText(vault, Get(vault, S_entries),
                    JSONstringify(serializedVault.val), encrypted, cipherText, now)

\* exportEncryptedVault(vault, masterPassword, encrypted); cipherText is the
\* string encryptVault returns for this call
exportEncryptedVault(vault, masterPassword, encrypted, cipherText, now) ==
    IF ~Truthy(masterPassword) /\ encrypted THEN Thrown(E_ExportPassword)
    ELSE ExportSerialized(vault, serializeVault(vault), encrypted, cipherText, now)

\* the entry without its password property: const { password, ...rest } = entry
WithoutPassword(entry) ==
    JObj(SelectSeq(Spread(entry).v, LAMBDA p : p[1] # S_password))

\* vaultCopy.entries.filter(...) when options.categories has members
FilterCategories(vaultCopy, options) ==
    IF options.categories # {}
    THEN Put(vaultCopy, S_entries,
             JArr(SelectSeq(Get(vaultCopy, S_entries).v, LAMBDA e :
                 Prop(e, S_category).t = "str"
                 /\ Prop(e, S_category).v \in options.categories)))
    ELSE vaultCopy

\* the same map under the opposite test
StripPasswordsInverted(vaultCopy, options) ==
    IF options.includePasswords
    THEN Put(vaultCopy, S_entries,
             JArr([i \in DOMAIN Get(vaultCopy, S_entries).v |->
                      WithoutPassword(Get(vaultCopy, S_entries).v[i])]))
    ELSE vaultCopy

\* vaultCopy.entries.map(...) when options.includePasswords is false
StripPasswords(vaultCopy, options) ==
    IF ~options.includePasswords
    THEN Put(vaultCopy, S_entries,
             JArr([i \in DOMAIN Get(vaultCopy, S_entries).v |->
                      WithoutPassword(Get(vaultCopy, S_entries).v[i])]))
    ELSE vaultCopy

CsvOut(csv) == IF csv.threw THEN Thrown(E_TypeError) ELSE Returned(csv.text)

\* the same switch without its case "json"
ExportFormatNoJson(vaultCopy, masterPassword, options, cipherText, now) ==
    CASE options.format = "csv" -> CsvOut(convertVaultToCsv(vaultCopy))
      [] OTHER ->
           exportEncryptedVault(vaultCopy, masterPassword,
               IF options.encrypted.t = "undef" THEN TRUE
               ELSE options.encrypted.v,
               cipherText, now)

\* the switch of exportVault on options.format
ExportFormat(vaultCopy, masterPassword, options, cipherText, now) ==
    CASE options.format = "csv" -> CsvOut(convertVaultToCsv(vaultCopy))
      [] options.format = "json" -> Returned(JSONstringify2(vaultCopy, 0))
      [] OTHER ->
           exportEncryptedVault(vaultCopy, masterPassword,
               IF options.encrypted.t = "undef" THEN TRUE
               ELSE options.encrypted.v,
               cipherText, now)

\* exportVault once the deep copy is made; filter and map throw a TypeError
\* on entries that are no array
ExportCopy(vaultCopy, masterPassword, options, cipherText, now) ==
    IF Get(vaultCopy, S_entries).t # "arr"
       /\ (options.categories # {} \/ ~options.includePasswords)
    THEN Thrown(E_TypeError)
    ELSE ExportFormat(StripPasswords(FilterCategories(vaultCopy, options), options),
                      masterPassword, options, cipherText, now)

\* the caller's vault object after exportVault took a reference to it in
\* place of the deep copy: the filter and the map are assigned to its entries
InputAfterExportAliased(vault, options) ==
    IF Get(vault, S_entries).t # "arr" THEN vault
    ELSE StripPasswords(FilterCategories(vault, options), options)

\* the caller's vault object after exportVault(vault, masterPassword,
\* options): every assignment of exportVault is to the deep copy
InputAfterExport(vault, options) == vault

\* exportVault(vault, masterPassword, options)
exportVault(vault, masterPassword, options, cipherText, now) ==
    ExportCopy(JSONparse(JSONstringify(vault)).val, masterPassword, options,
               cipherText, now)

(***************************************************************************)
(* vault/io: import.  An ImportResult is [vault, importedCount,            *)
(* skippedCount, errors]; the model adds decrypts, the number of           *)
(* decryptVault calls made, and progress, the values given to onProgress.  *)
(***************************************************************************)
EmptyVault == JObj(<<>>)
Failed(errors, decrypts, progress) ==
    [vault |-> EmptyVault, importedCount |-> 0, skippedCount |-> 0,
     errors |-> errors, decrypts |-> decrypts, progress |-> progress]

E_Unsupported == "Import failed: Unsupported import format"
E_InvalidFormat == "Invalid vault file format"
E_PasswordRequired == "Master password is required for encrypted vault import"
E_Decryption == "Decryption failed: "
E_JsonParsing == "JSON parsing failed: "
E_CsvParsing == "CSV parsing failed: "
E_InvalidEntry == "Invalid entry: "
E_InvalidEntryAt == "Invalid entry at index "
E_EmptyCsv == "Empty CSV file"
E_CsvTitle == "CSV must contain at least a 'title' column"
E_CsvColumns == "Invalid CSV line: column count mismatch"

\* the elements a for loop over x.length visits
Elements(x) ==
    CASE x.t = "arr" -> x.v
      [] x.t = "str" -> [i \in DOMAIN x.v |-> JStr(<<x.v[i]>>)]
      [] OTHER -> <<>>

LoopStart(errors, progress) ==
    [valid |-> <<>>, imported |-> 0, skipped |-> 0, errors |-> errors,
     progress |-> progress, threw |-> FALSE]

\* one turn of the validation loop: entry, what validateVaultEntry said of
\* it, and the progress the turn reports
ValidateStep(acc, entry, validationResult, message, progress) ==
    IF validationResult.threw THEN [acc EXCEPT !.threw = TRUE]
    ELSE IF validationResult.isValid
    THEN [acc EXCEPT !.valid = Append(@, entry),
                     !.imported = @ + 1,
                     !.progress = Append(@, progress)]
    ELSE [acc EXCEPT !.skipped = @ + 1,
                     !.errors = Append(@, message),
                     !.progress = Append(@, progress)]

RECURSIVE ValidateEntries(_, _, _, _, _, _)
\* the validation loop of importEncryptedVault and importJsonVault over
\* items, from index i (1-based); it stops where validateVaultEntry throws
ValidateEntries(items, i, acc, message, base, span) ==
    IF i > Len(items) \/ acc.threw THEN acc
    ELSE ValidateEntries(items, i + 1,
             ValidateStep(acc, items[i], validateVaultEntry(items[i]), message,
                          base + (((i - 1) * span) \div Len(items))),
             message, base, span)

\* the same without the last onProgress?.(100)
ImportedSilently(vault, loop, decrypts) ==
    [vault |-> vault,
     importedCount |-> loop.imported,
     skippedCount |-> loop.skipped,
     errors |-> loop.errors,
     decrypts |-> decrypts,
     progress |-> loop.progress]

\* the ImportResult of a loop that ran to its end around vault
Imported(vault, loop, decrypts) ==
    [vault |-> vault,
     importedCount |-> loop.imported,
     skippedCount |-> loop.skipped,
     errors |-> loop.errors,
     decrypts |-> decrypts,
     progress |-> Append(loop.progress, 100)]

\* the end of both import paths of a vault object: loop is the validation
\* loop over entries, the entries property of deserializedVault
ImportLoop(deserializedVault, entries, loop, decrypts, catchMessage) ==
    IF PropThrows(entries) \/ loop.threw
    THEN Failed(Append(loop.errors, catchMessage), decrypts, loop.progress)
    ELSE Imported(Put(deserializedVault, S_entries, JArr(loop.valid)), loop,
                  decrypts)

ImportEntries(deserializedVault, decrypts, progress, catchMessage, base, span) ==
    ImportLoop(deserializedVault, Get(deserializedVault, S_entries),
               ValidateEntries(Elements(Get(deserializedVault, S_entries)), 1,
                               LoopStart(<<>>, progress), E_InvalidEntry,
                               base, span),
               decrypts, catchMessage)

\* the part of both import paths that follows JSON.parse of a vault object
ImportDeserialized(vaultData, decrypts, progress, catchMessage, base, span) ==
    ImportEntries(deserializeVault(vaultData), decrypts, progress, catchMessage,
                  base, span)

\* importEncryptedVault after JSON.parse(decryptedData)
ImportVaultData(vaultData) ==
    IF ~vaultData.ok THEN Failed(<<E_Decryption>>, 1, <<10, 50>>)
    ELSE ImportDeserialized(vaultData.val, 1, <<10, 50>>, E_Decryption, 50, 50)

\* importEncryptedVault after await decryptVault(...)
ImportDecrypted(decrypted) ==
    IF decrypted.threw THEN Failed(<<E_Decryption>>, 1, <<10>>)
    ELSE ImportVaultData(JSONparse(decrypted.text))

\* the same with the password looked at only by decryptVault
ImportParsedUnchecked(parsedData, masterPassword, sealed) ==
    IF ~parsedData.ok THEN Failed(<<E_Decryption>>, 0, <<>>)
    ELSE IF ~vaultFileSchema(parsedData.val)
    THEN Failed(<<E_InvalidFormat>>, 0, <<>>)
    ELSE ImportDecrypted(decryptVault(Get(parsedData.val, S_data).v,
                                      IF masterPassword.t = "str"
                                      THEN masterPassword.v ELSE <<>>, sealed))

\* importEncryptedVault after JSON.parse(data)
ImportParsed(parsedData, masterPassword, sealed) ==
    IF ~parsedData.ok THEN Failed(<<E_Decryption>>, 0, <<>>)
    ELSE IF ~vaultFileSchema(parsedData.val)
    THEN Failed(<<E_InvalidFormat>>, 0, <<>>)
    ELSE IF ~Truthy(masterPassword)
    THEN Failed(<<E_PasswordRequired>>, 0, <<>>)
    ELSE ImportDecrypted(decryptVault(Get(parsedData.val, S_data).v,
                                      masterPassword.v, sealed))

\* an import that compares metadata.entryCount with the entries it found
E_EntryCount == "Entry count mismatch"
EntryCountChecked(parsedData, res) ==
    IF /\ parsedData.ok
       /\ res.vault # EmptyVault
       /\ Prop(Prop(parsedData.val, S_metadata), S_entryCount).t = "num"
       /\ Prop(Prop(parsedData.val, S_metadata), S_entryCount).v
             # res.importedCount + res.skippedCount
    THEN [res EXCEPT !.errors = Append(@, E_EntryCount)]
    ELSE res
importEncryptedVaultCounted(data, masterPassword, sealed) ==
    EntryCountChecked(JSONparse(data),
                      ImportParsed(JSONparse(data), masterPassword, sealed))

\* importEncryptedVault(data, masterPassword, onProgress)
importEncryptedVault(data, masterPassword, sealed) ==
    ImportParsed(JSONparse(data), masterPassword, sealed)

\* the vault importJsonVault and importCsvVault build around the entries
NewVault(id, name, entries, now) ==
    JObj(<< <<S_id, JStr(id)>>, <<S_name, JStr(name)>>,
            <<S_entries, JArr(entries)>>,
            <<S_createdAt, JDate(now)>>, <<S_updatedAt, JDate(now)>>,
            <<S_version, JStr(VAULT_VERSION)>> >>)

\* the same branch with the counts kept in the result while the loop runs
ImportArrayCounting(loop, id, now) ==
    IF loop.threw
    THEN [Failed(Append(loop.errors, E_JsonParsing), 0, loop.progress)
             EXCEPT !.importedCount = loop.imported, !.skippedCount = loop.skipped]
    ELSE Imported(NewVault(id, S_ImportedVault, loop.valid, now), loop, 0)

\* importJsonVault, the Array.isArray branch after its validation loop
ImportArray(loop, id, now) ==
    IF loop.threw
    THEN Failed(Append(loop.errors, E_JsonParsing), 0, loop.progress)
    ELSE Imported(NewVault(id, S_ImportedVault, loop.valid, now), loop, 0)

\* importJsonVault after JSON.parse(data)
ImportJson(parsedData, id, now) ==
    IF ~parsedData.ok THEN Failed(<<E_JsonParsing>>, 0, <<10>>)
    ELSE IF parsedData.val.t = "arr"
    THEN ImportArray(ValidateEntries(parsedData.val.v, 1, LoopStart(<<>>, <<10>>),
                                     E_InvalidEntryAt, 10, 90), id, now)
    ELSE ImportDeserialized(parsedData.val, 0, <<10>>, E_JsonParsing, 10, 90)

\* importJsonVault(data, onProgress)
importJsonVault(data, id, now) == ImportJson(JSONparse(data), id, now)

\* parts.map((t) => t.trim()) as strings
Trimmed(parts) == [k \in DOMAIN parts |-> trim(parts[k])]
TagList(parts) == JArr([k \in DOMAIN parts |-> JStr(trim(parts[k]))])

\* the entry importCsvVault builds from one line
CsvEntry(headers, values, now) ==
    LET F[j \in 0..Len(headers)] ==
            IF j = 0
            THEN JObj(<< <<S_createdAt, JDate(now)>>, <<S_updatedAt, JDate(now)>> >>)
            ELSE IF headers[j] = S_tags /\ values[j] # <<>>
            THEN Put(F[j - 1], S_tags, TagList(SplitOn(values[j], ";")))
            ELSE Put(F[j - 1], headers[j], JStr(values[j]))
    IN F[Len(headers)]

\* one turn of the loop of importCsvVault, once the entry is built
CsvValidated(acc, entry, validationResult, progress) ==
    IF validationResult.isValid
    THEN [acc EXCEPT !.valid = Append(@, entry),
                     !.imported = @ + 1,
                     !.progress = Append(@, progress)]
    ELSE [acc EXCEPT !.skipped = @ + 1,
                     !.errors = Append(@, E_InvalidEntry),
                     !.progress = Append(@, progress)]

CsvBuilt(acc, entry, progress) ==
    CsvValidated(acc, entry, validateVaultEntry(entry), progress)

\* the same turn with skippedCount++ forgotten for a line that has not as
\* many values as there are headers
CsvLineUncounted(acc, headers, values, now, progress) ==
    IF Len(values) # Len(headers)
    THEN [acc EXCEPT !.errors = Append(@, E_CsvColumns)]
    ELSE CsvBuilt(acc, CsvEntry(headers, values, now), progress)

\* one turn of the loop of importCsvVault on the values of a line
CsvLine(acc, headers, values, now, progress) ==
    IF Len(values) # Len(headers)
    THEN [acc EXCEPT !.skipped = @ + 1, !.errors = Append(@, E_CsvColumns)]
    ELSE CsvBuilt(acc, CsvEntry(headers, values, now), progress)

RECURSIVE CsvLines(_, _, _, _, _)
\* the loop of importCsvVault over lines[i], i from 1 (0-based)
CsvLines(lines, headers, i, acc, now) ==
    IF i > Len(lines) THEN acc
    ELSE CsvLines(lines, headers, i + 1,
             CsvLine(acc, headers, parseCSVLine(lines[i]), now,
                     10 + (((i - 1) * 90) \div Len(lines))),
             now)

\* importCsvVault after its loop
ImportCsvLoop(loop, id, now) ==
    Imported(NewVault(id, S_ImportedCsvVault, loop.valid, now), loop, 0)

\* importCsvVault once the headers are read
ImportCsvHeaders(lines, headers, id, now) ==
    IF S_title \notin Range(headers) THEN Failed(<<E_CsvTitle>>, 0, <<10>>)
    ELSE ImportCsvLoop(CsvLines(lines, headers, 2, LoopStart(<<>>, <<10>>), now),
                       id, now)

\* importCsvVault once the lines are split
ImportCsvLines(lines, id, now) ==
    IF lines = <<>> THEN Failed(<<E_EmptyCsv>>, 0, <<10>>)
    ELSE ImportCsvHeaders(lines, Trimmed(SplitOn(lines[1], ",")), id, now)

\* data.split(/\r?\n/) once the text is split at the line feeds: the
\* carriage return before a line feed goes with it
WithoutCarriageReturns(parts) ==
    [k \in DOMAIN parts |->
        IF k < Len(parts) /\ parts[k] # <<>> /\ parts[k][Len(parts[k])] = "\r"
        THEN SubSeq(parts[k], 1, Len(parts[k]) - 1)
        ELSE parts[k]]

\* importCsvVault(data, onProgress)
importCsvVault(data, id, now) ==
    ImportCsvLines(SelectSeq(WithoutCarriageReturns(SplitOn(data, "\n")),
                             LAMBDA l : trim(l) # <<>>),
                   id, now)

\* importVault(data, masterPassword, onProgress)
importVault(data, masterPassword, sealed, id, now) ==
    IF /\ startsWith(data, <<"{">>)
       /\ includes(data, Quote(S_data))
       /\ includes(data, Quote(S_version))
    THEN importEncryptedVault(data, masterPassword, sealed)
    ELSE IF startsWith(data, <<"{">>) \/ startsWith(data, <<"[">>)
    THEN importJsonVault(data, id, now)
    ELSE IF /\ includes(data, <<",">>)
            /\ (includes(data, <<"\r">>) \/ includes(data, <<"\n">>))
    THEN importCsvVault(data, id, now)
    ELSE Failed(<<E_Unsupported>>, 0, <<>>)

(***************************************************************************)
(* vault: createVault, addEntry.                                           *)
(***************************************************************************)
S_description == <<"d", "e", "s", "c", "r", "i", "p", "t", "i", "o", "n">>
S_settings == <<"s", "e", "t", "t", "i", "n", "g", "s">>
S_security == <<"s", "e", "c", "u", "r", "i", "t", "y">>
S_lockTimeout == <<"l", "o", "c", "k", "T", "i", "m", "e", "o", "u", "t">>
S_maxFailedAttempts == <<"m", "a", "x", "F", "a", "i", "l", "e", "d", "A", "t", "t", "e", "m", "p", "t", "s">>
S_ui == <<"u", "i">>
S_theme == <<"t", "h", "e", "m", "e">>
S_auto == <<"a", "u", "t", "o">>

\* DEFAULT_VAULT_SETTINGS, with the security and ui groups cut to the
\* properties shown
DEFAULT_VAULT_SETTINGS ==
    JObj(<< <<S_security, JObj(<< <<S_lockTimeout, JNum(15)>>,
                                  <<S_maxFailedAttempts, JNum(5)>> >>)>>,
            <<S_ui, JObj(<< <<S_theme, JStr(S_auto)>> >>)>> >>)

\* generateId(): the n-th identifier handed out
generateId(n) == <<"i", "d">> \o NumText(n)

\* createVault(data)
createVault(data, id, now) ==
    JObj(<< <<S_id, JStr(id)>>,
            <<S_name, Get(data, S_name)>>,
            <<S_description, Get(data, S_description)>>,
            <<S_entries, JArr(<<>>)>>,
            <<S_createdAt, JDate(now)>>,
            <<S_updatedAt, JDate(now)>>,
            <<S_version, JStr(VAULT_VERSION)>>,
            <<S_settings, DEFAULT_VAULT_SETTINGS>> >>)

\* the fields of createVaultEntrySchema
CreateEntryFields ==
    <<S_title, S_username, S_password, S_url, S_notes, S_tags, S_favorite,
      S_category, S_customFields>>

\* the schema of the field f of createVaultEntrySchema accepts x
CreateFieldOk(f, x) ==
    CASE f = S_title -> IsStrMin1(x)
      [] f = S_username -> usernameSchema(x)
      [] f = S_password -> OptionalOf(x, x.t = "str")
      [] f = S_url -> urlSchema(x)
      [] f = S_notes -> OptionalOf(x, x.t = "str")
      [] f = S_tags ->
           OptionalOf(x, x.t = "arr" /\ \A i \in DOMAIN x.v : x.v[i].t = "str")
      [] f = S_favorite -> OptionalOf(x, x.t = "bool")
      [] f = S_category -> OptionalOf(x, x.t = "str" /\ x.v \in EntryCategory)
      [] f = S_customFields ->
           OptionalOf(x, x.t = "arr"
                         /\ \A i \in DOMAIN x.v : customFieldSchema(x.v[i]))

\* createVaultEntrySchema.safeParse(data).error.errors, one for each field
\* that is refused, by the path of the field
CreateEntryIssues(e) ==
    IF e.t # "obj" THEN << <<>> >>
    ELSE SelectSeq(CreateEntryFields, LAMBDA f : ~CreateFieldOk(f, Get(e, f)))

\* createVaultEntrySchema.safeParse(data).success
createVaultEntrySchema(e) == CreateEntryIssues(e) = <<>>

\* validateCreateVaultEntry(data) once safeParse has run: isValid and errors
ValidationResult(errors) == [isValid |-> Len(errors) = 0, errors |-> errors]
validateCreateVaultEntry(data) == ValidationResult(CreateEntryIssues(data))

\* validateCreateEntryData(data)
validateCreateEntryData(data) == validateCreateVaultEntry(data)

\* createEntry(data)
createEntry(data, id, now) ==
    JObj(<< <<S_id, JStr(id)>>,
            <<S_title, Get(data, S_title)>>,
            <<S_username, Get(data, S_username)>>,
            <<S_password, Get(data, S_password)>>,
            <<S_url, Get(data, S_url)>>,
            <<S_notes, Get(data, S_notes)>>,
            <<S_tags, OrElse(Get(data, S_tags), JArr(<<>>))>>,
            <<S_favorite, OrElse(Get(data, S_favorite), JBool(FALSE))>>,
            <<S_category, OrElse(Get(data, S_category), JStr(LOGIN))>>,
            <<S_customFields, OrElse(Get(data, S_customFields), JArr(<<>>))>>,
            <<S_createdAt, JDate(now)>>,
            <<S_updatedAt, JDate(now)>> >>)

\* addEntry once the entry is created, with vault.entries.push(newEntry) in
\* place of the spread of vault.entries
AddEntryPushing(vault, newEntry, validation, now) ==
    [vault |-> Put(Put(vault, S_entries,
                       JArr(Append(Get(vault, S_entries).v, newEntry))),
                   S_updatedAt, JDate(now)),
     entry |-> newEntry,
     validation |-> validation,
     input |-> Put(vault, S_entries,
                   JArr(Append(Get(vault, S_entries).v, newEntry)))]

\* addEntry once the entry is created.  What addEntry returns is vault,
\* entry and validation; input is the vault object the caller passed, as it
\* is after the call
AddEntryCreated(vault, newEntry, validation, now) ==
    [vault |-> Put(Put(vault, S_entries,
                       JArr(Append(Get(vault, S_entries).v, newEntry))),
                   S_updatedAt, JDate(now)),
     entry |-> newEntry,
     validation |-> validation,
     input |-> vault]

\* addEntry once the data are validated
AddEntryValidated(vault, entryData, validation, id, now) ==
    IF Len(validation.errors) > 0
    THEN [vault |-> vault, entry |-> JNull, validation |-> validation,
          input |-> vault]
    ELSE AddEntryCreated(vault, createEntry(entryData, id, now), validation, now)

\* addEntry(vault, entryData); id is what generateId returns and now what
\* new Date() returns
addEntry(vault, entryData, id, now) ==
    AddEntryValidated(vault, entryData, validateCreateEntryData(entryData),
                      id, now)

\* vault.entries.findIndex((e) => e.id === entryId) + 1: 0 when no entry
\* has the id
findIndex(entries, entryId) ==
    IF \E i \in DOMAIN entries : Get(entries[i], S_id) = entryId
    THEN CHOOSE i \in DOMAIN entries :
             /\ Get(entries[i], S_id) = entryId
             /\ \A j \in 1..(i - 1) : Get(entries[j], S_id) # entryId
    ELSE 0

RECURSIVE Assign(_, _)
\* { ...o, ...props }: the properties of props, in their order, over o
Assign(o, props) ==
    IF props = <<>> THEN o
    ELSE Assign(Put(o, Head(props)[1], Head(props)[2]), Tail(props))

\* const now = new Date(); now.setMilliseconds(now.getMilliseconds() + 1)
NextMillisecond(now) == now + 1

\* { id, createdAt, updatedAt, ...entry, ...updates }: the updates last
UpdatedEntryOverridden(entry, updates, at) ==
    Assign(Assign(Put(Put(Put(JObj(<<>>), S_id, Get(entry, S_id)),
                          S_createdAt, Get(entry, S_createdAt)),
                      S_updatedAt, JDate(at)),
                  Spread(entry).v),
           Spread(updates).v)

\* { ...entry, ...updates, id: entry.id, createdAt: entry.createdAt,
\*   updatedAt: at }
UpdatedEntry(entry, updates, at) ==
    Put(Put(Put(Assign(Spread(entry), Spread(updates).v),
                S_id, Get(entry, S_id)),
            S_createdAt, Get(entry, S_createdAt)),
        S_updatedAt, JDate(at))

\* vault/entry: updateEntry(entry, updates), whose updatedAt is new Date()
entry_updateEntry(entry, updates, now) == UpdatedEntry(entry, updates, now)

\* updateEntryData(entry, updates)
updateEntryData(entry, updates, now) ==
    UpdatedEntry(entry, updates, NextMillisecond(now))

E_EntryNotFound == "Entry not found"
\* the validation result of updateEntry when no entry has the id
EntryNotFound == [isValid |-> FALSE, errors |-> <<E_EntryNotFound>>]

\* updateEntry once the updated entry is validated.  What updateEntry
\* returns is vault, entry and validation; input is the vault object the
\* caller passed, as it is after the call
UpdateEntryValidated(vault, entryIndex, updatedEntry, validation, at) ==
    IF Len(validation.errors) > 0
    THEN [vault |-> vault, entry |-> JNull, validation |-> validation,
          input |-> vault]
    ELSE [vault |-> Put(Put(vault, S_entries,
                            JArr([Get(vault, S_entries).v
                                    EXCEPT ![entryIndex] = updatedEntry])),
                        S_updatedAt, JDate(at)),
          entry |-> updatedEntry,
          validation |-> validation,
          input |-> vault]

\* updateEntry once the updated entry is built
UpdateEntryBuilt(vault, entryIndex, updatedEntry, at) ==
    UpdateEntryValidated(vault, entryIndex, updatedEntry,
                         validateCreateEntryData(updatedEntry), at)

\* updateEntry once the entry is looked up
UpdateEntryAt(vault, entryIndex, updateData, at) ==
    IF entryIndex = 0
    THEN [vault |-> vault, entry |-> JNull, validation |-> EntryNotFound,
          input |-> vault]
    ELSE UpdateEntryBuilt(vault, entryIndex,
                          UpdatedEntry(Get(vault, S_entries).v[entryIndex],
                                       updateData, at),
                          at)

\* updateEntry(vault, entryId, updateData); now is what new Date() returns
updateEntry(vault, entryId, updateData, now) ==
    UpdateEntryAt(vault, findIndex(Get(vault, S_entries).v, entryId),
                  updateData, NextMillisecond(now))

\* vault.entries.filter((e) => e.id === entryId): the test turned around
OnlyId(entries, entryId) ==
    SelectSeq(entries, LAMBDA e : Get(e, S_id) = entryId)

\* vault.entries.filter((e) => e.id !== entryId)
WithoutId(entries, entryId) ==
    SelectSeq(entries, LAMBDA e : Get(e, S_id) # entryId)

\* deleteEntry without the early return for an id no entry has
deleteEntryTouching(vault, entryId, now) ==
    Put(Put(vault, S_entries,
            JArr(WithoutId(Get(vault, S_entries).v, entryId))),
        S_updatedAt, JDate(now))

\* deleteEntry(vault, entryId)
deleteEntry(vault, entryId, now) ==
    IF findIndex(Get(vault, S_entries).v, entryId) = 0 THEN vault
    ELSE Put(Put(vault, S_entries,
                 JArr(WithoutId(Get(vault, S_entries).v, entryId))),
             S_updatedAt, JDate(now))

\* getEntry(vault, entryId): vault.entries.find((e) => e.id === entryId)
\* || null
getEntry(vault, entryId) ==
    IF findIndex(Get(vault, S_entries).v, entryId) = 0 THEN JNull
    ELSE Get(vault, S_entries).v[findIndex(Get(vault, S_entries).v, entryId)]

\* bulkAddEntries that creates the entries whose data are valid and leaves
\* the others out
BulkAddValidOnes(vault, entriesData, validationResults, firstId, now) ==
    [vault |->
        Put(Put(vault, S_entries,
                JArr(Get(vault, S_entries).v
                     \o SelectSeq([i \in DOMAIN entriesData |->
                                     createEntry(entriesData[i],
                                                 generateId(firstId + i - 1), now)],
                                  LAMBDA e : createVaultEntrySchema(e)))),
            S_updatedAt, JDate(now)),
     entries |->
        SelectSeq([i \in DOMAIN entriesData |->
                     createEntry(entriesData[i], generateId(firstId + i - 1), now)],
                  LAMBDA e : createVaultEntrySchema(e)),
     validationResults |-> validationResults,
     input |-> vault]

\* bulkAddEntries once the entries are created
BulkAddCreated(vault, newEntries, validationResults, now) ==
    [vault |-> Put(Put(vault, S_entries,
                       JArr(Get(vault, S_entries).v \o newEntries)),
                   S_updatedAt, JDate(now)),
     entries |-> newEntries,
     validationResults |-> validationResults,
     input |-> vault]

\* bulkAddEntries once the data are validated; the identifiers of the new
\* entries are the ones generateId hands out from firstId on
BulkAddValidated(vault, entriesData, validationResults, firstId, now) ==
    IF ~(\A i \in DOMAIN validationResults :
            Len(validationResults[i].errors) = 0)
    THEN [vault |-> vault, entries |-> <<>>,
          validationResults |-> validationResults, input |-> vault]
    ELSE BulkAddCreated(vault,
                        [i \in DOMAIN entriesData |->
                            createEntry(entriesData[i],
                                        generateId(firstId + i - 1), now)],
                        validationResults, now)

\* bulkAddEntries(vault, entriesData)
bulkAddEntries(vault, entriesData, firstId, now) ==
    BulkAddValidated(vault, entriesData,
                     [i \in DOMAIN entriesData |->
                         validateCreateEntryData(entriesData[i])],
                     firstId, now)

\* vault.entries.filter((entry) => !idsToDelete.has(entry.id))
remainingEntries(entries, entryIds) ==
    SelectSeq(entries,
              LAMBDA e : \A i \in DOMAIN entryIds : entryIds[i] # Get(e, S_id))

\* bulkDeleteEntries(vault, entryIds)
bulkDeleteEntries(vault, entryIds, now) ==
    IF Len(remainingEntries(Get(vault, S_entries).v, entryIds))
         = Len(Get(vault, S_entries).v)
    THEN vault
    ELSE Put(Put(vault, S_entries,
                 JArr(remainingEntries(Get(vault, S_entries).v, entryIds))),
             S_updatedAt, JDate(now))

(***************************************************************************)
(* vault/analysis: searchEntries.                                          *)
(***************************************************************************)
S_query == <<"q", "u", "e", "r", "y">>
S_categories == <<"c", "a", "t", "e", "g", "o", "r", "i", "e", "s">>
S_favorites == <<"f", "a", "v", "o", "r", "i", "t", "e", "s">>
S_caseSensitive ==
    <<"c", "a", "s", "e", "S", "e", "n", "s", "i", "t", "i", "v", "e">>
S_exactMatch == <<"e", "x", "a", "c", "t", "M", "a", "t", "c", "h">>

\* String.prototype.toLowerCase
toLowerCase(s) ==
    [i \in DOMAIN s |->
        IF \E k \in DOMAIN Upper : Upper[k] = s[i]
        THEN Lower[CHOOSE k \in DOMAIN Upper : Upper[k] = s[i]]
        ELSE s[i]]

\* x?.length as a condition: x is an array that holds an element
NonEmptyList(x) == x.t = "arr" /\ Len(x.v) > 0
\* Array.prototype.includes
ArrayIncludes(a, x) == \E i \in DOMAIN a.v : a.v[i] = x

\* the query as it is typed, whatever caseSensitive is
SearchQueryAsTyped(query, caseSensitive) == query

\* const searchQuery = caseSensitive ? query : query.toLowerCase()
SearchQuery(query, caseSensitive) ==
    IF caseSensitive THEN query ELSE toLowerCase(query)

\* fieldMatches(fieldValue) once the value is normalized
NormalizedMatches(normalizedValue, searchQuery, exactMatch) ==
    IF exactMatch THEN normalizedValue = searchQuery
    ELSE includes(normalizedValue, searchQuery)

\* fieldMatches(fieldValue): the fields it is called on are strings, or
\* undefined
fieldMatches(fieldValue, searchQuery, caseSensitive, exactMatch) ==
    IF ~Truthy(fieldValue) \/ fieldValue.t # "str" THEN FALSE
    ELSE NormalizedMatches(IF caseSensitive THEN fieldValue.v
                           ELSE toLowerCase(fieldValue.v),
                           searchQuery, exactMatch)

\* the text search of matches(entry): the standard fields, the tags, the
\* custom fields
TextMatches(entry, searchQuery, caseSensitive, exactMatch) ==
    \/ \E field \in {S_title, S_username, S_url, S_notes} :
          /\ Get(entry, field).t = "str"
          /\ fieldMatches(Get(entry, field), searchQuery, caseSensitive,
                          exactMatch)
    \/ /\ Truthy(Get(entry, S_tags))
       /\ \E i \in DOMAIN Elements(Get(entry, S_tags)) :
             fieldMatches(Elements(Get(entry, S_tags))[i], searchQuery,
                          caseSensitive, exactMatch)
    \/ /\ Truthy(Get(entry, S_customFields))
       /\ \E i \in DOMAIN Elements(Get(entry, S_customFields)) :
             \/ fieldMatches(Prop(Elements(Get(entry, S_customFields))[i], S_name),
                             searchQuery, caseSensitive, exactMatch)
             \/ fieldMatches(Prop(Elements(Get(entry, S_customFields))[i], S_value),
                             searchQuery, caseSensitive, exactMatch)

\* matches(entry)
matches(entry, options, query, caseSensitive, exactMatch) ==
    IF /\ NonEmptyList(Get(options, S_categories))
       /\ \/ ~Truthy(Get(entry, S_category))
          \/ ~ArrayIncludes(Get(options, S_categories), Get(entry, S_category))
    THEN FALSE
    ELSE IF /\ NonEmptyList(Get(options, S_tags))
            /\ \/ ~Truthy(Get(entry, S_tags))
               \/ Len(Elements(Get(entry, S_tags))) = 0
               \/ ~\E i \in DOMAIN Elements(Get(entry, S_tags)) :
                      ArrayIncludes(Get(options, S_tags),
                                    Elements(Get(entry, S_tags))[i])
    THEN FALSE
    ELSE IF /\ Get(options, S_favorites).t # "undef"
            /\ Get(entry, S_favorite) # Get(options, S_favorites)
    THEN FALSE
    ELSE IF ~Truthy(query) THEN TRUE
    ELSE TextMatches(entry, SearchQuery(query.v, caseSensitive),
                     caseSensitive, exactMatch)

\* what searchEntries returns, searchTime apart
SearchResult(entries) == [entries |-> entries, totalCount |-> Len(entries)]

\* searchEntries once the defaults of the options are set
SearchWith(vault, options, query, caseSensitive, exactMatch) ==
    IF /\ ~Truthy(query)
       /\ ~NonEmptyList(Get(options, S_categories))
       /\ ~NonEmptyList(Get(options, S_tags))
       /\ Get(options, S_favorites).t = "undef"
    THEN SearchResult(Get(vault, S_entries).v)
    ELSE SearchResult(SelectSeq(Get(vault, S_entries).v,
                                LAMBDA entry :
                                    matches(entry, options, query,
                                            caseSensitive, exactMatch)))

\* searchEntries(vault, options)
searchEntries(vault, options) ==
    SearchWith(vault, options,
               OrElse(Get(options, S_query), JStr(<<>>)),
               Truthy(Get(options, S_caseSensitive)),
               Truthy(Get(options, S_exactMatch)))

(***************************************************************************)
(* crypto/keyDerivation: deriveKey, keyToString, stringToKey.  A CryptoKey *)
(* is [material |-> the bytes of the key]; Web Crypto's PBKDF2 is a fixed  *)
(* function of the password bytes and the salt, and its AES-GCM opens a    *)
(* box only under the key material and the iv that closed it.              *)
(***************************************************************************)
S_kty == <<"k", "t", "y">>
S_k == <<"k">>
S_alg == <<"a", "l", "g">>
S_ext == <<"e", "x", "t">>
S_key_ops == <<"k", "e", "y", "_", "o", "p", "s">>
S_oct == <<"o", "c", "t">>
S_encrypt == <<"e", "n", "c", "r", "y", "p", "t">>
S_decrypt == <<"d", "e", "c", "r", "y", "p", "t">>

\* the alphabets of base64 and of base64url
B64 == Upper \o Lower \o Digits \o <<"+", "/">>
B64Url == Upper \o Lower \o Digits \o <<"-", "_">>

\* the value of the j-th character of the base64 text of bytes
Sextet(bytes, j) ==
    LET g == 3 * ((j - 1) \div 4)
        b(i) == IF g + i <= Len(bytes) THEN bytes[g + i] ELSE 0
    IN CASE (j - 1) % 4 = 0 -> b(1) \div 4
         [] (j - 1) % 4 = 1 -> (b(1) % 4) * 16 + (b(2) \div 16)
         [] (j - 1) % 4 = 2 -> (b(2) % 16) * 4 + (b(3) \div 64)
         [] OTHER -> b(3) % 64

\* the base64 text of bytes in alphabet, filled up with "=" when padded
Base64Text(bytes, alphabet, padded) ==
    [j \in 1..(IF padded THEN 4 * ((Len(bytes) + 2) \div 3)
               ELSE (4 * Len(bytes) + 2) \div 3) |->
        IF j > (4 * Len(bytes) + 2) \div 3 THEN "="
        ELSE alphabet[Sextet(bytes, j) + 1]]

\* the k-th byte of the text whose characters have the values vals
Octet(vals, k) ==
    LET g == 4 * ((k - 1) \div 3) IN
    CASE (k - 1) % 3 = 0 -> vals[g + 1] * 4 + (vals[g + 2] \div 16)
      [] (k - 1) % 3 = 1 -> (vals[g + 2] % 16) * 16 + (vals[g + 3] \div 4)
      [] OTHER -> (vals[g + 3] % 4) * 64 + vals[g + 4]

OctetsOf(vals) == [k \in 1..((Len(vals) * 3) \div 4) |-> Octet(vals, k)]

\* the bytes of a base64 text s without padding: [threw, bytes]
Base64Bytes(s, alphabet) ==
    IF Len(s) % 4 = 1 \/ \E i \in DOMAIN s : s[i] \notin Range(alphabet)
    THEN [threw |-> TRUE, bytes |-> <<>>]
    ELSE [threw |-> FALSE,
          bytes |-> OctetsOf([i \in DOMAIN s |-> IndexIn(alphabet, s[i]) - 1])]

\* String.fromCharCode for the codes 0 to 255; a code that is not one of
\* the model's characters gives the form feed
CodeChars ==
    [n \in 0..255 |->
        IF n = 10 THEN "\n"
        ELSE IF \E c \in DOMAIN CharCodes : CharCodes[c] = n
        THEN CHOOSE c \in DOMAIN CharCodes : CharCodes[c] = n
        ELSE "\f"]
fromCharCode(n) == CodeChars[n]

\* btoa(s): every character of the model has a code below 256
btoa(s) == Base64Text([i \in DOMAIN s |-> charCodeAt(s[i])], B64, TRUE)

\* s without the padding atob takes off
Unpadded(s) ==
    IF Len(s) % 4 = 0 /\ Len(s) > 0 /\ s[Len(s)] = "="
    THEN IF s[Len(s) - 1] = "=" THEN SubSeq(s, 1, Len(s) - 2)
         ELSE SubSeq(s, 1, Len(s) - 1)
    ELSE s

AtobBytes(decoded) ==
    [threw |-> decoded.threw,
     text |-> [k \in DOMAIN decoded.bytes |-> fromCharCode(decoded.bytes[k])]]

\* atob(s): [threw, text]
atob(s) ==
    AtobBytes(Base64Bytes(
        Unpadded(SelectSeq(s, LAMBDA c : c \notin {" ", "\n", "\t", "\r", "\f"})),
        B64))

\* TextEncoder.encode(s): UTF-8
Utf8(s) ==
    Concat([i \in DOMAIN s |->
               IF charCodeAt(s[i]) < 128 THEN <<charCodeAt(s[i])>>
               ELSE <<192 + (charCodeAt(s[i]) \div 64), 128 + (charCodeAt(s[i]) % 64)>>])

RECURSIVE Weight(_, _, _)
\* the sum of bytes[i] * (i + shift) over i
Weight(bytes, i, shift) ==
    IF i > Len(bytes) THEN 0
    ELSE bytes[i] * (i + shift) + Weight(bytes, i + 1, shift)

KeyBytes == 32
\* deriveKey(password, salt): the 256-bit AES-GCM key that PBKDF2 makes of
\* the password bytes and the salt
DerivedKey(bytes, salt) ==
    [material |-> [i \in 1..KeyBytes |->
        (Weight(bytes, 1, i) + Weight(salt, 1, 2 * i) + 131 * i + Len(bytes)) % 256]]
deriveKey(password, salt) == DerivedKey(Utf8(password), salt)

\* the alg of an AES-GCM key of n bytes
AlgOf(n) == <<"A">> \o NumText(8 * n) \o <<"G", "C", "M">>

\* crypto.subtle.exportKey("jwk", key)
exportKey(key) ==
    JObj(<< <<S_key_ops, JArr(<<JStr(S_encrypt), JStr(S_decrypt)>>)>>,
            <<S_ext, JBool(TRUE)>>,
            <<S_kty, JStr(S_oct)>>,
            <<S_k, JStr(Base64Text(key.material, B64Url, FALSE))>>,
            <<S_alg, JStr(AlgOf(Len(key.material)))>> >>)

NoCryptoKey == [material |-> <<>>]
\* what a stringToKey call ends with: it rejects with an Error whose message
\* starts with error, or it resolves to key
E_Deserialize == "Failed to deserialize key: "
Rejected == [threw |-> TRUE, error |-> E_Deserialize, key |-> NoCryptoKey]

\* importKey once the k of the jwk is decoded
ImportDecoded(jwk, decoded) ==
    IF \/ decoded.threw
       \/ Len(decoded.bytes) \notin {16, 24, 32}
       \/ ~OptionalOf(Get(jwk, S_alg),
              Get(jwk, S_alg).t = "str"
              /\ Get(jwk, S_alg).v = AlgOf(Len(decoded.bytes)))
    THEN Rejected
    ELSE [threw |-> FALSE, error |-> "", key |-> [material |-> decoded.bytes]]

\* crypto.subtle.importKey("jwk", jwk, { name: "AES-GCM" }, true,
\* ["encrypt", "decrypt"]): [threw, key]
importKey(jwk) ==
    IF \/ jwk.t # "obj"
       \/ Get(jwk, S_kty).t # "str" \/ Get(jwk, S_kty).v # S_oct
       \/ Get(jwk, S_k).t # "str"
       \/ ~OptionalOf(Get(jwk, S_ext),
              Get(jwk, S_ext).t = "bool" /\ Get(jwk, S_ext).v)
       \/ ~OptionalOf(Get(jwk, S_key_ops),
              Get(jwk, S_key_ops).t = "arr"
              /\ \A op \in {S_encrypt, S_decrypt} :
                     \E i \in DOMAIN Get(jwk, S_key_ops).v :
                        /\ Get(jwk, S_key_ops).v[i].t = "str"
                        /\ Get(jwk, S_key_ops).v[i].v = op)
    THEN Rejected
    ELSE ImportDecoded(jwk, Base64Bytes(Get(jwk, S_k).v, B64Url))

\* a keyToString that encodes the key text alone
keyToStringRaw(key) == btoa(Get(exportKey(key), S_k).v)

\* keyToString(key)
keyToString(key) == btoa(JSONstringify(exportKey(key)))

\* stringToKey once JSON.parse has run
StringToKeyParsed(jwk) == IF ~jwk.ok THEN Rejected ELSE importKey(jwk.val)
\* the same with atob called before the try block
StringToKeyTextOutside(jwkString) ==
    IF jwkString.threw THEN [Rejected EXCEPT !.error = "InvalidCharacterError"]
    ELSE StringToKeyParsed(JSONparse(jwkString.text))
\* stringToKey once atob has run
StringToKeyText(jwkString) ==
    IF jwkString.threw THEN Rejected ELSE StringToKeyParsed(JSONparse(jwkString.text))
\* stringToKey(keyString): [threw, key]
stringToKey(keyString) == StringToKeyText(atob(keyString))

\* crypto.subtle.encrypt({ name: "AES-GCM", iv }, key, data)
encrypt(iv, key, data) == [material |-> key.material, iv |-> iv, data |-> data]
\* crypto.subtle.decrypt({ name: "AES-GCM", iv }, key, box): [threw, data]
decrypt(iv, key, box) ==
    IF box.material = key.material /\ box.iv = iv
    THEN [threw |-> FALSE, data |-> box.data]
    ELSE [threw |-> TRUE, data |-> <<>>]

(***************************************************************************)
(* The state machine: a caller that builds a vault, exports it, keeps the  *)
(* exported text in a file that may be altered, and imports the file.      *)
(***************************************************************************)
VARIABLES
    vault,     \* the caller's vault
    now,       \* the clock: what new Date() returns
    nextId,    \* the number of the next identifier generateId hands out
    sealed,    \* every encryptVault call made: [plainText, password]
    exp,       \* the last exportVault call: its arguments and outcome
    file,      \* the text in storage and where it comes from
    imp,       \* the last importVault call: its arguments and result
    key,       \* the caller of the key codec: its keys and its key string
    csv,       \* the caller of the CSV utilities: its values and its line
    add,       \* the last addEntry call: its arguments and what it returned
    calls,     \* the exportVault and importVault calls that run together
    op         \* the last call on the vault's entries: its arguments and result

vars ==
    <<vault, now, nextId, sealed, exp, file, imp, key, csv, add, calls, op>>

\* 01:02:03.004 of the day
ClockStart == 3723004

NoPassword == JUndef
\* the master passwords an import is tried with
Passwords ==
    {NoPassword, JStr(<<>>), JStr(<<"p", "w">>), JStr(<<"P", "W", "2">>),
     JStr(<<"p", "e-acute", " ", "w">>)}

DefaultOptions ==
    [format |-> "vault", includePasswords |-> TRUE, categories |-> {},
     encrypted |-> JBool(TRUE)]
PW == JStr(<<"p", "w">>)
\* the calls of exportVault: a master password and the options
ExportCalls == {
    [masterPassword |-> PW, options |-> DefaultOptions],
    [masterPassword |-> JStr(<<>>), options |-> DefaultOptions],
    [masterPassword |-> JStr(<<"p", "e-acute", " ", "w">>),
     options |-> DefaultOptions],
    [masterPassword |-> NoPassword, options |-> DefaultOptions],
    [masterPassword |-> PW,
     options |-> [DefaultOptions EXCEPT !.categories = {LOGIN}]],
    [masterPassword |-> JStr(<<"P", "W", "2">>),
     options |-> [DefaultOptions EXCEPT !.includePasswords = FALSE,
                                        !.encrypted = JUndef]],
    [masterPassword |-> NoPassword,
     options |-> [DefaultOptions EXCEPT !.encrypted = JBool(FALSE)]],
    [masterPassword |-> NoPassword,
     options |-> [DefaultOptions EXCEPT !.format = "json",
                                        !.encrypted = JBool(FALSE)]],
    [masterPassword |-> PW,
     options |-> [DefaultOptions EXCEPT !.format = "csv", !.encrypted = JUndef]],
    [masterPassword |-> NoPassword,
     options |-> [DefaultOptions EXCEPT !.format = "csv", !.encrypted = JUndef]],
    [masterPassword |-> NoPassword,
     options |-> [DefaultOptions EXCEPT !.format = "json",
                                        !.includePasswords = FALSE]],
    [masterPassword |-> JStr(<<>>),
     options |-> [DefaultOptions EXCEPT !.format = "csv",
                                        !.includePasswords = FALSE]],
    [masterPassword |-> NoPassword,
     options |-> [DefaultOptions EXCEPT !.includePasswords = FALSE,
                                        !.encrypted = JBool(FALSE)]] }

\* entry data a caller hands to addEntry; one is titled "data", and the last
\* two have an empty title and no title
EntryData == {
    JObj(<< <<S_title, JStr(<<"A", "1">>)>>,
            <<S_username, JStr(<<"u", "@", "x", ".", "i", "o">>)>>,
            <<S_password, JStr(<<"p", "\"", "1">>)>>,
            <<S_url, JStr(<<"h", "t", "t", "p", ":", "/", "/", "a">>)>>,
            <<S_tags, JArr(<<JStr(<<"t">>), JStr(<<"x", "y">>)>>)>>,
            <<S_customFields,
              JArr(<<JObj(<< <<S_id, JStr(<<"f", "1">>)>>,
                             <<S_name, JStr(<<"n">>)>>,
                             <<S_value, JStr(<<"7">>)>>,
                             <<S_type, JStr(<<"n", "u", "m", "b", "e", "r">>)>>,
                             <<S_hidden, JBool(TRUE)>> >>)>>)>> >>),
    JObj(<< <<S_title, JStr(<<"B">>)>>,
            <<S_notes, JStr(<<"n", ",", "m">>)>>,
            <<S_favorite, JBool(TRUE)>>,
            <<S_category, JStr(SECURE_NOTE)>> >>),
    JObj(<< <<S_title, JStr(S_data)>> >>),
    JObj(<< <<S_title, JStr(<<>>)>> >>),
    JObj(<< <<S_username, JStr(<<"u">>)>> >>) }

NoExport ==
    [done |-> FALSE, masterPassword |-> NoPassword, options |-> DefaultOptions,
     out |-> Thrown("")]
NoImport ==
    [done |-> FALSE, masterPassword |-> NoPassword, res |-> Failed(<<>>, 0, <<>>)]
\* the calls that run together
MaxCalls == 2
NoCall ==
    [kind |-> "none", pc |-> "idle", masterPassword |-> NoPassword,
     options |-> DefaultOptions, data |-> <<>>, vaultCopy |-> JUndef,
     cipherText |-> <<>>, out |-> Thrown(""), res |-> Failed(<<>>, 0, <<>>)]
\* the exportVault calls among them: the second is rejected
ConcExports == {
    [masterPassword |-> PW, options |-> DefaultOptions],
    [masterPassword |-> NoPassword, options |-> DefaultOptions],
    [masterPassword |-> JStr(<<"P", "W", "2">>),
     options |-> [DefaultOptions EXCEPT !.categories = {LOGIN},
                                        !.includePasswords = FALSE]],
    [masterPassword |-> NoPassword,
     options |-> [DefaultOptions EXCEPT !.format = "json",
                                        !.encrypted = JBool(FALSE)]] }
\* the passwords of the importVault calls: the right one and a wrong one
ConcPasswords == {PW, JStr(<<"P", "W", "2">>)}

NoAdd == [done |-> FALSE, entryData |-> JUndef, before |-> JUndef,
          res |-> [vault |-> JUndef, entry |-> JNull,
                   validation |-> ValidationResult(<<>>), input |-> JUndef]]
\* what a call on the vault's entries returns: addEntry and updateEntry
\* return vault, entry and validation, bulkAddEntries vault, entries and
\* validationResults, deleteEntry and bulkDeleteEntries the vault alone
OpResult(res, entry, entries, validation, validationResults) ==
    [vault |-> res.vault, input |-> res.input, entry |-> entry,
     entries |-> entries, validation |-> validation,
     validationResults |-> validationResults]
NoOp ==
    [name |-> "none", n |-> 0, at |-> 0, before |-> JUndef,
     entryId |-> JUndef, data |-> JUndef, entriesData |-> <<>>,
     entryIds |-> <<>>,
     res |-> OpResult([vault |-> JUndef, input |-> JUndef], JNull, <<>>,
                      ValidationResult(<<>>), <<>>)]
NoFile == [text |-> <<>>, origin |-> "none"]

\* documents that come from somewhere else than an export
\* neither JSON nor CSV
DocGarbage ==
    <<"h", "e", "l", "l", "o">>
\* a JSON object that is no vault
DocEmptyObject ==
    <<"{", "}">>
\* a JSON array of two entries, neither of them valid
DocEntryList ==
    <<"[", "{", "\"", "t", "i", "t", "l", "e", "\"", ":", "\"", "x", "\"",
      "}", ",", "{", "\"", "i", "d", "\"", ":", "\"", "a", "\"", ",", "\"",
      "t", "i", "t", "l", "e", "\"", ":", "\"", "b", "\"", ",", "\"", "u",
      "s", "e", "r", "n", "a", "m", "e", "\"", ":", "5", "}", "]">>
\* the start of an envelope: not parseable
DocCutEnvelope ==
    <<"{", "\"", "d", "a", "t", "a", "\"", ":", "\"", "c", "t", "1", "\"",
      ",", "\"", "s", "a", "l", "t", "\"", ":", "\"", "\"", ",", "\"", "i",
      "v", "\"", ":", "\"", "\"", ",", "\"", "v", "e", "r", "s", "i", "o",
      "n", "\"", ":">>
\* an envelope sealed elsewhere: no encryptVault call of this run made it
DocEnvelope ==
    <<"{", "\"", "d", "a", "t", "a", "\"", ":", "\"", "z", "z", "\"", ",",
    "\"", "s", "a", "l", "t", "\"", ":", "\"", "\"", ",", "\"", "i", "v",
    "\"", ":", "\"", "\"", ",", "\"", "v", "e", "r", "s", "i", "o", "n",
    "\"", ":", "\"", "1", ".", "0", ".", "0", "\"", "}">>
\* a vault object whose createdAt is no date text
DocBadDate ==
    <<"{", "\"", "n", "a", "m", "e", "\"", ":", "\"", "x", "\"", ",", "\"",
    "e", "n", "t", "r", "i", "e", "s", "\"", ":", "[", "]", ",", "\"", "c",
    "r", "e", "a", "t", "e", "d", "A", "t", "\"", ":", "\"", "s", "o", "o",
    "n", "\"", ",", "\"", "u", "p", "d", "a", "t", "e", "d", "A", "t", "\"",
    ":", "\"", "1", "9", "7", "0", "-", "0", "1", "-", "0", "1", "T", "0",
    "0", ":", "0", "0", ":", "0", "0", ".", "0", "0", "0", "Z", "\"", "}">>
\* a CSV document with a title column
DocCsv ==
    <<"t", "i", "t", "l", "e", ",", "u", "s", "e", "r", "n", "a", "m", "e",
      "\n", "A", ",", "u", "\n">>
\* a vault object of two entries, the second with an empty title
DocMixed ==
    <<"{", "\"", "e", "n", "t", "r", "i", "e", "s", "\"", ":", "[", "{",
      "\"", "i", "d", "\"", ":", "\"", "a", "\"", ",", "\"", "t", "i", "t",
      "l", "e", "\"", ":", "\"", "t", "\"", ",", "\"", "c", "r", "e", "a",
      "t", "e", "d", "A", "t", "\"", ":", "\"", "1", "9", "7", "0", "-",
      "0", "1", "-", "0", "1", "T", "0", "0", ":", "0", "0", ":", "0", "0",
      ".", "0", "0", "0", "Z", "\"", ",", "\"", "u", "p", "d", "a", "t",
      "e", "d", "A", "t", "\"", ":", "\"", "1", "9", "7", "0", "-", "0",
      "1", "-", "0", "1", "T", "0", "0", ":", "0", "0", ":", "0", "0", ".",
      "0", "0", "0", "Z", "\"", "}", ",", "{", "\"", "i", "d", "\"", ":",
      "\"", "b", "\"", ",", "\"", "t", "i", "t", "l", "e", "\"", ":", "\"",
      "\"", "}", "]", "}">>
\* a CSV document with an id column: a row that is an entry, a row without
\* an id, an empty line and a row that is a column short, the lines ending
\* with a carriage return and a line feed
DocCsvIds ==
    <<"i", "d", ",", "t", "i", "t", "l", "e", "\r", "\n", "1", ",", "A",
      "\r", "\n", ",", "B", "\r", "\n", "\r", "\n", "x", "\r", "\n">>
Documents ==
    {DocGarbage, DocEmptyObject, DocEntryList, DocCutEnvelope, DocEnvelope,
     DocBadDate, DocCsv, DocMixed, DocCsvIds}

\* what may happen to the metadata of an envelope in storage: another
\* name and other dates, an entryCount and a checksum that disagree with
\* the content, no metadata at all
MetadataAlterations == {"fields", "counts", "bare"}
OtherDate == <<"n", "o", "w">>
OtherName == <<"o", "t", "h", "e", "r">>
WithMetadata(env, k, x) ==
    Put(env, S_metadata, Put(Get(env, S_metadata), k, x))
MetadataAltered(kind, env) ==
    CASE kind = "fields" ->
           WithMetadata(WithMetadata(WithMetadata(env, S_name, JStr(OtherName)),
                                     S_createdAt, JStr(OtherDate)),
                        S_lastModified, JStr(OtherDate))
      [] kind = "counts" ->
           WithMetadata(WithMetadata(env, S_entryCount,
                                     JNum(Get(Get(env, S_metadata), S_entryCount).v + 1)),
                        S_checksum, JStr(<<"0">>))
      [] OTHER -> JObj(SelectSeq(env.v, LAMBDA p : p[1] # S_metadata))

\* what may happen to an envelope in storage
Alterations ==
    {"tamper", "version", "drop", "type", "truncate"} \cup MetadataAlterations
UnknownVersion == <<"9", ".", "9", ".", "9">>
Tampered(cipherText) == [cipherText EXCEPT ![Len(cipherText)] = "x"]
Altered(kind, text, env) ==
    CASE kind = "tamper" ->
           JSONstringify(Put(env, S_data, JStr(Tampered(Get(env, S_data).v))))
      [] kind = "version" ->
           JSONstringify(Put(env, S_version, JStr(UnknownVersion)))
      [] kind = "drop" ->
           JSONstringify(JObj(SelectSeq(env.v, LAMBDA p : p[1] # S_salt)))
      [] kind = "type" -> JSONstringify(Put(env, S_version, JNum(1)))
      [] kind \in MetadataAlterations ->
           JSONstringify(MetadataAltered(kind, env))
      [] OTHER -> SubSeq(text, 1, Len(text) - 1)
Alter(kind, text) == Altered(kind, text, JSONparse(text).val)

\* the passwords keys are derived from: none, a short one, and a long one
\* with a character outside ASCII
KeyPasswords ==
    {<<>>, <<"p", "w">>,
     [i \in 1..40 |-> IF i = 7 THEN "e-acute" ELSE Lower[1 + (i % 26)]]}
\* the salts of generateSalt, cut to four bytes
Salts == {<<0, 0, 0, 0>>, <<1, 2, 3, 4>>, <<255, 16, 0, 9>>}
\* the data and the iv of a trial encryption
TrialData == <<"H", "i">>
TrialIv == <<7, 7, 7>>

\* key strings that are no base64 text
NotBase64 ==
    {<<"i", "n", "v", "a", "l", "i", "d", "-", "k", "e", "y", "-", "s", "t", "r", "i", "n", "g">>,
     <<"n", "o", "t", "-", "b", "a", "s", "e", "6", "4", "!", "@", "#">>,
     <<"e", "y", "J", "r", "d">>}
\* base64 texts of something that is no JSON text
NotJson ==
    {<<>>, btoa(<<"h", "e", "l", "l", "o">>),
     SubSeq(keyToString(deriveKey(<<"p", "w">>, <<1, 2, 3, 4>>)), 1, 120)}
\* a jwk of 32 key bytes with the property k of it set to x
JwkWith(k, x) == Put(exportKey(deriveKey(<<"p", "w">>, <<1, 2, 3, 4>>)), k, x)
\* base64 texts of JSON values that are no AES-GCM key
NotKey ==
    {btoa(<<"{", "\"", "i", "n", "v", "a", "l", "i", "d", "\"", ":", " ", "\"", "j", "w", "k", "\"", "}">>),
     btoa(S_null), btoa(<<"[", "]">>), btoa(<<"4", "2">>),
     btoa(JSONstringify(JwkWith(S_kty, JStr(<<"R", "S", "A">>)))),
     btoa(JSONstringify(JwkWith(S_k, JStr(<<"A", "A", "A", "A">>)))),
     btoa(JSONstringify(JwkWith(S_k, JStr(<<"+", "/", "=", "=">>)))),
     btoa(JSONstringify(JwkWith(S_k, JNum(7)))),
     btoa(JSONstringify(JwkWith(S_alg, JStr(AlgOf(16))))),
     btoa(JSONstringify(JwkWith(S_ext, JBool(FALSE)))),
     btoa(JSONstringify(JwkWith(S_key_ops, JArr(<<JStr(S_encrypt)>>))))}
\* key strings of a key: what keyToString made, and a jwk of k and kty alone
KeyStrings ==
    {keyToString(deriveKey(<<>>, <<0, 0, 0, 0>>)),
     btoa(JSONstringify(JObj(<< <<S_kty, JStr(S_oct)>>,
                                <<S_k, JStr(Base64Text([i \in 1..16 |-> 9 * i],
                                                       B64Url, FALSE))>> >>)))}

\* the caller of the CSV utilities: the values of a row, the escaped fields,
\* the line they make and what parseCSVLine finds in it
NoCsv == [phase |-> "none", values |-> <<>>, fields |-> <<>>, line |-> <<>>,
          parsed |-> <<>>]
\* the characters of the values
CsvAlphabet == {"a", ",", "\"", "\n", "\r"}
\* a row of k values of n characters in all has k + n <= MaxCsv
MaxCsv == 5
CsvSeparator == "|"
CsvTexts == UNION {[1..k -> CsvAlphabet \cup {CsvSeparator}] : k \in 0..(MaxCsv - 1)}
\* the rows: no value at all, or the values between the separators of a text
CsvRows == {<<>>} \cup {SplitOn(text, CsvSeparator) : text \in CsvTexts}

NoBox == [by |-> "none", opened |-> FALSE]
NoKey ==
    [phase |-> "none", original |-> NoCryptoKey, current |-> NoCryptoKey,
     keyString |-> <<>>, trips |-> 0, threw |-> FALSE, error |-> "",
     box |-> NoBox]

Init ==
    /\ vault = createVault(JObj(<< <<S_name, JStr(<<"V">>)>> >>),
                           generateId(1), ClockStart)
    /\ now = ClockStart
    /\ nextId = 2
    /\ sealed = <<>>
    /\ exp = NoExport
    /\ file = NoFile
    /\ imp = NoImport
    /\ key = NoKey
    /\ csv = NoCsv
    /\ add = NoAdd
    /\ calls = [c \in 1..MaxCalls |-> NoCall]
    /\ op = NoOp

\* the caller adds an entry, a millisecond after the last change of the
\* vault: vault = addEntry(vault, entryData).vault; a rejected call changes
\* nothing and reads no clock
Added(entryData, res) ==
    /\ add' = [done |-> TRUE, entryData |-> entryData, before |-> vault,
               res |-> res]
    /\ vault' = res.vault
    /\ IF res.validation.isValid
       THEN nextId' = nextId + 1 /\ now' = now + 1
       ELSE UNCHANGED <<nextId, now>>
AddEntry ==
    /\ Len(Get(vault, S_entries).v) < MaxEntries
    /\ ~exp.done /\ file = NoFile
    /\ \E entryData \in EntryData :
         Added(entryData, addEntry(vault, entryData, generateId(nextId), now + 1))
    /\ UNCHANGED <<sealed, exp, file, imp, key, csv, calls, op>>

\* what an exportVault call that ends with out leaves behind
Exported(call, out) ==
    /\ exp' = [done |-> TRUE, masterPassword |-> call.masterPassword,
               options |-> call.options, out |-> out]
    /\ sealed' = IF out.encrypts
                 THEN Append(sealed, [plainText |-> out.plainText,
                                      password |-> call.masterPassword.v])
                 ELSE sealed
    /\ file' = IF out.threw THEN file
               ELSE [text |-> out.text, origin |-> "export"]

\* out = await exportVault(vault, masterPassword, options); the text, when
\* there is one, goes to the file
ExportVault ==
    /\ ~exp.done /\ file = NoFile
    /\ \E call \in ExportCalls :
         Exported(call, exportVault(vault, call.masterPassword, call.options,
                                    CipherText(Len(sealed) + 1), now))
    /\ UNCHANGED <<vault, now, nextId, imp, key, csv, add, calls, op>>

\* the envelope in storage is damaged or edited
AlterFile ==
    /\ file.origin = "export" /\ exp.out.encrypts
    /\ ~imp.done
    /\ \E kind \in Alterations :
         file' = [text |-> Alter(kind, file.text), origin |-> kind]
    /\ UNCHANGED <<vault, now, nextId, sealed, exp, imp, key, csv, add, calls, op>>

\* a document from elsewhere is in storage, before any export or after one
\* that was rejected
ForeignFile ==
    /\ file = NoFile /\ (~exp.done \/ exp.out.threw)
    /\ Get(vault, S_entries).v = <<>>
    /\ \E doc \in Documents : file' = [text |-> doc, origin |-> "foreign"]
    /\ UNCHANGED <<vault, now, nextId, sealed, exp, imp, key, csv, add, calls, op>>

\* the caller writes JSON.stringify(vault.entries) to the file
WriteEntries ==
    /\ file = NoFile /\ ~exp.done
    /\ file' = [text |-> JSONstringify(Get(vault, S_entries)), origin |-> "entries"]
    /\ UNCHANGED <<vault, now, nextId, sealed, exp, imp, key, csv, add, calls, op>>

\* res = await importVault(file, masterPassword)
ImportVault ==
    /\ file # NoFile /\ ~imp.done
    /\ \E masterPassword \in Passwords :
         imp' = [done |-> TRUE, masterPassword |-> masterPassword,
                 res |-> importVault(file.text, masterPassword, sealed,
                                     generateId(nextId), now)]
    /\ UNCHANGED <<vault, now, nextId, sealed, exp, file, key, csv, add, calls, op>>

Next ==
    AddEntry \/ ExportVault \/ AlterFile \/ ForeignFile \/ WriteEntries \/ ImportVault

Spec == Init /\ [][Next]_vars

(***************************************************************************)
(* The caller of the key codec: it derives a key, turns it into a string   *)
(* and back some times, and tries the key it holds against the first one.  *)
(***************************************************************************)
\* key = await deriveKey(password, generateSalt())
DeriveKey ==
    /\ key.phase = "none"
    /\ \E password \in KeyPasswords, salt \in Salts :
         key' = [key EXCEPT !.phase = "key",
                            !.original = deriveKey(password, salt),
                            !.current = deriveKey(password, salt)]
    /\ UNCHANGED <<vault, now, nextId, sealed, exp, file, imp, csv, add, calls, op>>

\* keyString = await keyToString(currentKey)
KeyToString ==
    /\ key.phase = "key" /\ key.trips < MaxTrips /\ key.box = NoBox
    /\ key' = [key EXCEPT !.phase = "string",
                          !.keyString = keyToString(key.current)]
    /\ UNCHANGED <<vault, now, nextId, sealed, exp, file, imp, csv, add, calls, op>>

\* what a stringToKey call that ends with out leaves behind
Restored(out) ==
    key' = [key EXCEPT !.phase = IF out.threw THEN "failed" ELSE "key",
                       !.current = out.key,
                       !.threw = out.threw,
                       !.error = out.error,
                       !.trips = @ + 1]

\* currentKey = await stringToKey(keyString)
StringToKey ==
    /\ key.phase = "string"
    /\ Restored(stringToKey(key.keyString))
    /\ UNCHANGED <<vault, now, nextId, sealed, exp, file, imp, csv, add, calls, op>>

\* data encrypted with one of the two keys is decrypted with the other
TryKey ==
    /\ key.phase = "key" /\ key.box = NoBox
    /\ \/ key' = [key EXCEPT !.box =
              [by |-> "original",
               opened |-> decrypt(TrialIv, key.current,
                              encrypt(TrialIv, key.original, TrialData))
                          = [threw |-> FALSE, data |-> TrialData]]]
       \/ key' = [key EXCEPT !.box =
              [by |-> "current",
               opened |-> decrypt(TrialIv, key.original,
                              encrypt(TrialIv, key.current, TrialData))
                          = [threw |-> FALSE, data |-> TrialData]]]
    /\ UNCHANGED <<vault, now, nextId, sealed, exp, file, imp, csv, add, calls, op>>

\* key = await stringToKey(keyString) on a key string from storage
ReadKeyString ==
    /\ key.phase = "none"
    /\ \E keyString \in NotBase64 \cup NotJson \cup NotKey \cup KeyStrings :
         key' = [key EXCEPT !.phase = "read",
                            !.keyString = keyString,
                            !.current = stringToKey(keyString).key,
                            !.threw = stringToKey(keyString).threw,
                            !.error = stringToKey(keyString).error]
    /\ UNCHANGED <<vault, now, nextId, sealed, exp, file, imp, csv, add, calls, op>>

NextKey == DeriveKey \/ KeyToString \/ StringToKey \/ TryKey \/ ReadKeyString

SpecKey == Init /\ [][NextKey]_vars

(***************************************************************************)
(* The caller of the CSV utilities: it takes the values of a row, escapes  *)
(* each and joins them with commas as convertVaultToCsv does, and parses   *)
(* the line as importCsvVault does.                                        *)
(***************************************************************************)
TakeValues ==
    /\ csv.phase = "none"
    /\ \E values \in CsvRows : csv' = [NoCsv EXCEPT !.phase = "values",
                                                    !.values = values]
    /\ UNCHANGED <<vault, now, nextId, sealed, exp, file, imp, key, add, calls, op>>

\* fields = values.map(escapeCSV); line = fields.join(",")
Joined(fields) ==
    csv' = [csv EXCEPT !.phase = "line", !.fields = fields,
                       !.line = JoinWith(fields, <<",">>)]
WriteRow ==
    /\ csv.phase = "values"
    /\ Joined([i \in DOMAIN csv.values |-> escapeCSV(JStr(csv.values[i]))])
    /\ UNCHANGED <<vault, now, nextId, sealed, exp, file, imp, key, add, calls, op>>

\* parsed = parseCSVLine(line)
ReadRow ==
    /\ csv.phase = "line"
    /\ csv' = [csv EXCEPT !.phase = "parsed", !.parsed = parseCSVLine(csv.line)]
    /\ UNCHANGED <<vault, now, nextId, sealed, exp, file, imp, key, add, calls, op>>

NextCsv == TakeValues \/ WriteRow \/ ReadRow

SpecCsv == Init /\ [][NextCsv]_vars

(***************************************************************************)
(* exportVault and importVault calls that run together on one vault of two *)
(* entries.  A call runs from its start to its first await, of            *)
(* encryptVault or of decryptVault, or to its end when it has none; the    *)
(* cipher answers the calls that wait in any order, and a call that got    *)
(* its answer runs to its end.                                             *)
(***************************************************************************)
ConcVault ==
    addEntry(addEntry(createVault(JObj(<< <<S_name, JStr(<<"V">>)>> >>),
                                  generateId(1), ClockStart),
                      JObj(<< <<S_title, JStr(<<"A", "1">>)>>,
                              <<S_password, JStr(<<"p", "1">>)>> >>),
                      generateId(2), ClockStart + 1).vault,
             JObj(<< <<S_title, JStr(<<"B">>)>>,
                     <<S_category, JStr(SECURE_NOTE)>> >>),
             generateId(3), ClockStart + 2).vault

\* an encrypted export of the vault made before the calls start
ConcEnvelope ==
    exportVault(ConcVault, PW, DefaultOptions, CipherText(1), ClockStart + 2)

InitConc ==
    /\ vault = ConcVault
    /\ now = ClockStart + 2
    /\ nextId = 4
    /\ sealed = <<[plainText |-> ConcEnvelope.plainText, password |-> PW.v]>>
    /\ exp = NoExport
    /\ file = NoFile
    /\ imp = NoImport
    /\ key = NoKey
    /\ csv = NoCsv
    /\ add = NoAdd
    /\ calls = [c \in 1..MaxCalls |-> NoCall]
    /\ op = NoOp

\* the call c is the next one to start
Idle(c) == calls[c].pc = "idle" /\ \A d \in 1..(c - 1) : calls[d].pc # "idle"

\* exportVault(vault, masterPassword, options) up to await encryptVault(...),
\* where upTo is what the call has done by then, or to its end
ExportStarted(c, call, upTo) ==
    calls' = [calls EXCEPT ![c] =
                 [NoCall EXCEPT !.kind = "export",
                                !.pc = IF upTo.encrypts THEN "awaiting" ELSE "done",
                                !.masterPassword = call.masterPassword,
                                !.options = call.options,
                                !.vaultCopy = JSONparse(JSONstringify(vault)).val,
                                !.out = IF upTo.encrypts THEN Thrown("") ELSE upTo]]
StartExport ==
    /\ \E c \in 1..MaxCalls, call \in ConcExports :
         /\ Idle(c)
         /\ ExportStarted(c, call, exportVault(vault, call.masterPassword,
                                               call.options, <<>>, now))
         /\ vault' = InputAfterExport(vault, call.options)
    /\ UNCHANGED <<now, nextId, sealed, exp, file, imp, key, csv, add, op>>

\* encryptVault answers the call c, which runs to its end
EncryptFinished(c, cipherText, out) ==
    /\ calls' = [calls EXCEPT ![c].pc = "done", ![c].cipherText = cipherText,
                              ![c].out = out]
    /\ sealed' = Append(sealed, [plainText |-> out.plainText,
                                 password |-> calls[c].masterPassword.v])
FinishEncrypt ==
    /\ \E c \in 1..MaxCalls :
         /\ calls[c].kind = "export" /\ calls[c].pc = "awaiting"
         /\ EncryptFinished(c, CipherText(Len(sealed) + 1),
                ExportCopy(calls[c].vaultCopy, calls[c].masterPassword,
                           calls[c].options, CipherText(Len(sealed) + 1), now))
    /\ UNCHANGED <<vault, now, nextId, exp, file, imp, key, csv, add, op>>

\* the texts a call can import: the envelope made before, and a text that
\* is no vault
ConcDocuments == {ConcEnvelope.text, DocGarbage}

\* importVault(data, masterPassword) up to await decryptVault(...), where
\* upTo is what the call has done by then, or to its end
ImportStarted(c, data, masterPassword, upTo) ==
    calls' = [calls EXCEPT ![c] =
                 [NoCall EXCEPT !.kind = "import",
                                !.pc = IF upTo.decrypts > 0 THEN "awaiting"
                                       ELSE "done",
                                !.masterPassword = masterPassword,
                                !.data = data,
                                !.res = IF upTo.decrypts > 0
                                        THEN Failed(<<>>, 0, <<>>) ELSE upTo]]
StartImport ==
    /\ \E c \in 1..MaxCalls, data \in ConcDocuments,
          masterPassword \in ConcPasswords :
         /\ Idle(c)
         /\ ImportStarted(c, data, masterPassword,
                importVault(data, masterPassword, <<>>, generateId(nextId), now))
    /\ UNCHANGED <<vault, now, nextId, sealed, exp, file, imp, key, csv, add, op>>

\* decryptVault answers the call c, which runs to its end
FinishDecrypt ==
    /\ \E c \in 1..MaxCalls :
         /\ calls[c].kind = "import" /\ calls[c].pc = "awaiting"
         /\ calls' = [calls EXCEPT ![c].pc = "done",
                          ![c].res = importVault(calls[c].data,
                                         calls[c].masterPassword, sealed,
                                         generateId(nextId), now)]
    /\ UNCHANGED <<vault, now, nextId, sealed, exp, file, imp, key, csv, add, op>>

NextConc == StartExport \/ FinishEncrypt \/ StartImport \/ FinishDecrypt

SpecConc == InitConc /\ [][NextConc]_vars

(***************************************************************************)
(* A caller that works on the entries of its vault with addEntry,          *)
(* updateEntry, deleteEntry, bulkAddEntries and bulkDeleteEntries, and     *)
(* keeps the vault each call returns.  The clock moves between calls or    *)
(* stands still: several calls may read the same millisecond.              *)
(***************************************************************************)
\* the calls the caller makes at most
MaxOps == 3
\* the milliseconds that pass at most
MaxTicks == 1

\* an identifier no entry has
UnknownId == JStr(generateId(0))

TitledA ==
    JObj(<< <<S_title, JStr(<<"A">>)>>,
            <<S_username, JStr(<<"u">>)>>,
            <<S_tags, JArr(<<JStr(<<"t">>)>>)>> >>)
TitledB ==
    JObj(<< <<S_title, JStr(<<"B">>)>>,
            <<S_favorite, JBool(TRUE)>> >>)
Untitled == JObj(<< <<S_username, JStr(<<"u">>)>> >>)
\* the data a caller adds: two that createVaultEntrySchema accepts and one
\* it refuses
NewEntries == {TitledA, TitledB, Untitled}

\* the data a caller updates with: an id and a createdAt of its own, an
\* empty title that the schema refuses, fields the entry may or may not
\* have, and nothing at all
UpdateData == {
    JObj(<< <<S_title, JStr(<<"Z">>)>>,
            <<S_id, UnknownId>>,
            <<S_createdAt, JDate(0)>> >>),
    JObj(<< <<S_title, JStr(<<>>)>> >>),
    JObj(<< <<S_notes, JStr(<<"n">>)>>, <<S_favorite, JBool(FALSE)>> >>),
    JObj(<<>>) }

\* the lists a caller adds in one call
BulkData == {<<>>, <<TitledB>>, <<TitledA, TitledB>>, <<TitledA, Untitled>>}

\* the ids of the entries of a vault, in the order of the entries
IdsOf(v) == [i \in DOMAIN Get(v, S_entries).v |-> Get(Get(v, S_entries).v[i], S_id)]

\* the ids a caller names in a call: the ones of its entries and one more
TargetIds == {IdsOf(vault)[i] : i \in DOMAIN IdsOf(vault)} \cup {UnknownId}

\* the lists of ids a caller deletes in one call
BulkIds ==
    {<<>>, <<UnknownId>>, IdsOf(vault), IdsOf(vault) \o <<UnknownId>>}
        \cup {<<id>> : id \in TargetIds}

\* what a call leaves behind: the caller keeps the vault that is returned
Called(name, entryId, data, entriesData, entryIds, res, ids) ==
    /\ op.n < MaxOps
    /\ op' = [name |-> name, n |-> op.n + 1, at |-> now, before |-> vault,
              entryId |-> entryId, data |-> data,
              entriesData |-> entriesData, entryIds |-> entryIds,
              res |-> res]
    /\ vault' = res.vault
    /\ nextId' = nextId + ids
    /\ UNCHANGED <<now, sealed, exp, file, imp, key, csv, add, calls>>

\* { vault, entry, validation } = addEntry(vault, entryData)
AddedEntry(entryData, res) ==
    Called("addEntry", JUndef, entryData, <<>>, <<>>,
           OpResult(res, res.entry, <<>>, res.validation, <<>>),
           IF res.validation.isValid THEN 1 ELSE 0)
CallAddEntry ==
    /\ Len(Get(vault, S_entries).v) < MaxEntries
    /\ \E entryData \in NewEntries :
          AddedEntry(entryData,
                     addEntry(vault, entryData, generateId(nextId), now))

\* { vault, entry, validation } = updateEntry(vault, entryId, updateData)
UpdatedVault(entryId, updateData, res) ==
    Called("updateEntry", entryId, updateData, <<>>, <<>>,
           OpResult(res, res.entry, <<>>, res.validation, <<>>), 0)
CallUpdateEntry ==
    \E entryId \in TargetIds, updateData \in UpdateData :
        UpdatedVault(entryId, updateData,
                     updateEntry(vault, entryId, updateData, now))

\* vault = deleteEntry(vault, entryId)
CallDeleteEntry ==
    \E entryId \in TargetIds :
        Called("deleteEntry", entryId, JUndef, <<>>, <<>>,
               OpResult([vault |-> deleteEntry(vault, entryId, now),
                         input |-> vault],
                        JNull, <<>>, ValidationResult(<<>>), <<>>),
               0)

\* { vault, entries, validationResults } = bulkAddEntries(vault, entriesData)
BulkAdded(entriesData, res) ==
    Called("bulkAddEntries", JUndef, JUndef, entriesData, <<>>,
           OpResult(res, JNull, res.entries, ValidationResult(<<>>),
                    res.validationResults),
           Len(res.entries))
CallBulkAddEntries ==
    \E entriesData \in BulkData :
        /\ Len(Get(vault, S_entries).v) + Len(entriesData) <= MaxEntries
        /\ BulkAdded(entriesData,
                     bulkAddEntries(vault, entriesData, nextId, now))

\* vault = bulkDeleteEntries(vault, entryIds)
CallBulkDeleteEntries ==
    \E entryIds \in BulkIds :
        Called("bulkDeleteEntries", JUndef, JUndef, <<>>, entryIds,
               OpResult([vault |-> bulkDeleteEntries(vault, entryIds, now),
                         input |-> vault],
                        JNull, <<>>, ValidationResult(<<>>), <<>>),
               0)

\* a millisecond passes
Tick ==
    /\ now < ClockStart + MaxTicks
    /\ now' = now + 1
    /\ UNCHANGED <<vault, nextId, sealed, exp, file, imp, key, csv, add, calls, op>>

NextVault ==
    \/ CallAddEntry \/ CallUpdateEntry \/ CallDeleteEntry
    \/ CallBulkAddEntries \/ CallBulkDeleteEntries \/ Tick

SpecVault == Init /\ [][NextVault]_vars

(***************************************************************************)
(* A caller that searches its vault with searchEntries, and deletes        *)
(* entries between the searches.                                           *)
(***************************************************************************)
\* the entries of the vault that is searched
SearchEntriesData ==
    << JObj(<< <<S_title, JStr(<<"A", "b">>)>>,
               <<S_username, JStr(<<"u">>)>>,
               <<S_url, JStr(<<"h", "t", "t", "p", ":", "/", "/", "a">>)>>,
               <<S_tags, JArr(<<JStr(<<"t">>)>>)>>,
               <<S_customFields,
                 JArr(<<JObj(<< <<S_id, JStr(<<"f", "1">>)>>,
                                <<S_name, JStr(<<"k">>)>>,
                                <<S_value, JStr(<<"Z", "q">>)>>,
                                <<S_type, JStr(<<"t", "e", "x", "t">>)>>,
                                <<S_hidden, JBool(FALSE)>> >>)>>)>> >>),
       JObj(<< <<S_title, JStr(<<"b">>)>>,
               <<S_notes, JStr(<<"a", "B">>)>>,
               <<S_tags, JArr(<<JStr(<<"t">>), JStr(<<"w">>)>>)>>,
               <<S_favorite, JBool(TRUE)>>,
               <<S_category, JStr(SECURE_NOTE)>> >>),
       JObj(<< <<S_title, JStr(<<"X">>)>>,
               <<S_username, JStr(<<"A", "B">>)>> >>) >>

SearchVault ==
    bulkAddEntries(createVault(JObj(<< <<S_name, JStr(<<"V">>)>> >>),
                               generateId(1), ClockStart),
                   SearchEntriesData, 2, ClockStart).vault

\* the options a caller searches with; a property that is undefined is an
\* option left out
SearchOptions ==
    {JObj(<< <<S_query, query>>, <<S_categories, categories>>,
             <<S_tags, tags>>, <<S_favorites, favorites>>,
             <<S_caseSensitive, caseSensitive>>,
             <<S_exactMatch, exactMatch>> >>) :
        query \in {JUndef, JStr(<<>>), JStr(<<"a">>), JStr(<<"a", "b">>),
                   JStr(<<"A", "B">>), JStr(<<"t">>), JStr(<<"z", "q">>)},
        categories \in {JUndef, JArr(<<>>), JArr(<<JStr(LOGIN)>>),
                        JArr(<<JStr(SECURE_NOTE)>>)},
        tags \in {JUndef, JArr(<<>>), JArr(<<JStr(<<"w">>)>>),
                  JArr(<<JStr(<<"z">>), JStr(<<"t">>)>>)},
        favorites \in {JUndef, JBool(TRUE), JBool(FALSE)},
        caseSensitive \in {JUndef, JBool(TRUE)},
        exactMatch \in {JUndef, JBool(TRUE)}}

InitSearch ==
    /\ vault = SearchVault
    /\ now = ClockStart
    /\ nextId = 5
    /\ sealed = <<>>
    /\ exp = NoExport
    /\ file = NoFile
    /\ imp = NoImport
    /\ key = NoKey
    /\ csv = NoCsv
    /\ add = NoAdd
    /\ calls = [c \in 1..MaxCalls |-> NoCall]
    /\ op = NoOp

\* res = searchEntries(vault, options).  A search changes nothing, so that
\* a search after another finds what it finds after the call before them:
\* only the searches that follow another call are taken
CallSearchEntries ==
    /\ op.name # "searchEntries"
    /\ \E options \in SearchOptions :
          op' = [name |-> "searchEntries", n |-> op.n, at |-> now,
                 before |-> vault, entryId |-> JUndef, data |-> options,
                 entriesData |-> <<>>, entryIds |-> <<>>,
                 res |-> searchEntries(vault, options)]
    /\ UNCHANGED <<vault, now, nextId, sealed, exp, file, imp, key, csv, add, calls>>

NextSearch == CallSearchEntries \/ CallDeleteEntry

SpecSearch == InitSearch /\ [][NextSearch]_vars

(***************************************************************************)
(* The properties.                                                         *)
(***************************************************************************)
Keys(o) == {o.v[i][1] : i \in DOMAIN o.v}

RECURSIVE Same(_, _)
\* x and y are equal field for field: the same type, the same elements in
\* the same order, the same value under every property name (a missing
\* property and an undefined one are alike), dates equal to the millisecond
Same(x, y) ==
    IF x.t # y.t THEN FALSE
    ELSE CASE x.t = "arr" ->
                /\ Len(x.v) = Len(y.v)
                /\ \A i \in DOMAIN x.v : Same(x.v[i], y.v[i])
           [] x.t = "obj" ->
                \A k \in Keys(x) \cup Keys(y) : Same(Get(x, k), Get(y, k))
           [] x.t \in {"null", "undef"} -> TRUE
           [] OTHER -> x.v = y.v

\* two master password arguments are the same
SamePassword(a, b) == a.t = b.t /\ (a.t = "str" => a.v = b.v)

\* the file holds, unaltered, what an encrypted export with the default
\* options returned, and the import was given the password of the export
RoundTrip ==
    /\ exp.done /\ imp.done
    /\ exp.options = DefaultOptions
    /\ file.origin = "export"
    /\ SamePassword(imp.masterPassword, exp.masterPassword)

\* the import gave back the entries of the exported vault
GaveBack(res) ==
    /\ res.errors = <<>>
    /\ res.skippedCount = 0
    /\ res.importedCount = Len(Get(vault, S_entries).v)
    /\ Same(Get(res.vault, S_entries), Get(vault, S_entries))

NothingImported(res) ==
    /\ res.importedCount = 0
    /\ Get(res.vault, S_entries).t = "undef"

\* the file holds an envelope of this run's export, and the import was given
\* another password than the export, or the envelope's data was altered
WrongKeyOrTampered ==
    /\ exp.done /\ imp.done
    /\ exp.out.encrypts /\ ~exp.out.threw
    /\ \/ file.origin = "tamper"
       \/ /\ file.origin = "export"
          /\ ~SamePassword(imp.masterPassword, exp.masterPassword)

OnEncryptedPath(data) ==
    /\ startsWith(data, <<"{">>)
    /\ includes(data, Quote(S_data))
    /\ includes(data, Quote(S_version))

\* parsed is a structurally valid envelope
ValidEnvelope(parsed) == parsed.ok /\ vaultFileSchema(parsed.val)

\* C3: every input of the encrypted import path that is no structurally
\* valid envelope (a missing or mistyped field, or text that is not
\* parseable JSON) ends with the invalid-format error and never with a
\* decryption error, and decryptVault is not called for it.
C3_InvalidEnvelopeIsFormatError ==
    (imp.done /\ OnEncryptedPath(file.text) /\ ~ValidEnvelope(JSONparse(file.text)))
        => imp.res.errors = <<E_InvalidFormat>> /\ imp.res.decrypts = 0

\* C4: an import of a structurally valid envelope whose version is not in
\* SUPPORTED_VERSIONS fails with an error, whatever the password, builds no
\* vault, and decryptVault is not called for it.
C4_UnsupportedVersionRejected ==
    (/\ imp.done /\ OnEncryptedPath(file.text)
     /\ ValidEnvelope(JSONparse(file.text))
     /\ Get(JSONparse(file.text).val, S_version).v \notin SUPPORTED_VERSIONS)
        => /\ imp.res.decrypts = 0
           /\ imp.res.errors # <<>>
           /\ NothingImported(imp.res)

\* an encrypted export was asked for without a master password
ExportWithoutPassword ==
    /\ exp.done
    /\ exp.options.format = "vault"
    /\ exp.options.encrypted.t = "bool" /\ exp.options.encrypted.v
    /\ ~Truthy(exp.masterPassword)

\* a structurally valid envelope was imported without a master password
ImportWithoutPassword ==
    /\ imp.done
    /\ OnEncryptedPath(file.text)
    /\ ValidEnvelope(JSONparse(file.text))
    /\ ~Truthy(imp.masterPassword)

\* C5: an encrypted operation asked for without a master password fails with
\* the 'Master password is required' error before any cryptographic call:
\* the import of a valid envelope returns that error with importedCount = 0
\* and calls no decryptVault; the encrypted export rejects with that error
\* and calls no encryptVault.
C5_PasswordRequired ==
    /\ ImportWithoutPassword =>
           /\ imp.res.errors = <<E_PasswordRequired>>
           /\ imp.res.importedCount = 0
           /\ imp.res.decrypts = 0
    /\ ExportWithoutPassword =>
           /\ exp.out.threw
           /\ exp.out.error = E_ExportPassword
           /\ ~exp.out.encrypts
           /\ sealed = <<>>

\* an export without a password was rejected, and then an envelope from
\* elsewhere was imported without a password
C5_Witness ==
    /\ ExportWithoutPassword /\ exp.out.error = E_ExportPassword
    /\ ImportWithoutPassword /\ imp.res.errors = <<E_PasswordRequired>>

\* the messages of an import that fails as a whole
WholeFailures ==
    {E_Unsupported, E_InvalidFormat, E_PasswordRequired, E_Decryption,
     E_JsonParsing, E_CsvParsing, E_EmptyCsv, E_CsvTitle}
FailedAsAWhole(res) == \E i \in DOMAIN res.errors : res.errors[i] \in WholeFailures

\* C6: every importVault call resolves to an ImportResult, and either the
\* import failed as a whole, and then errors is non-empty, importedCount = 0,
\* skippedCount = 0 and the result vault has no entries, or it built a vault
\* that holds exactly the importedCount entries it counted.
C6_FailureCarriesNoData ==
    imp.done =>
        IF FailedAsAWhole(imp.res)
        THEN /\ imp.res.errors # <<>>
             /\ imp.res.importedCount = 0
             /\ imp.res.skippedCount = 0
             /\ Get(imp.res.vault, S_entries).t = "undef"
        ELSE /\ Get(imp.res.vault, S_entries).t = "arr"
             /\ Len(Get(imp.res.vault, S_entries).v) = imp.res.importedCount

\* an import that failed as a whole after its loop had already turned an
\* entry down
C6_Witness ==
    /\ imp.done
    /\ imp.res.errors = <<E_InvalidEntryAt, E_JsonParsing>>
    /\ imp.res.skippedCount = 0

\* an encrypted export returned an envelope
Sealed == exp.done /\ exp.out.encrypts /\ ~exp.out.threw

\* env is the envelope of a seal of plainText, whose payload is the text of
\* the object payload
EnvelopeOf(env, metadata, plainText, payload) ==
    /\ Same(Get(env, S_version), JStr(VAULT_VERSION))
    /\ Same(Get(metadata, S_name), Get(vault, S_name))
    /\ Same(Get(metadata, S_entryCount), JNum(Len(Get(payload, S_entries).v)))
    /\ Same(Get(metadata, S_createdAt),
            JStr(toISOString(Get(vault, S_createdAt).v)))
    /\ Same(Get(metadata, S_lastModified),
            JStr(toISOString(Get(vault, S_updatedAt).v)))
    /\ Same(Get(metadata, S_checksum), JStr(calculateChecksum(plainText)))
    /\ Same(Get(env, S_data), JStr(CipherText(Len(sealed))))
    /\ sealed[Len(sealed)].plainText = plainText

EnvelopeText(env, plainText) ==
    EnvelopeOf(env, Get(env, S_metadata), plainText, JSONparse(plainText).val)

\* C8: the envelope an encrypted export returns has version = VAULT_VERSION,
\* metadata.name = the vault's name, metadata.entryCount = the number of
\* entries in the encrypted payload (after the category filter),
\* metadata.createdAt and lastModified = the vault's createdAt and updatedAt
\* as ISO strings, and metadata.checksum = calculateChecksum of the very
\* plaintext given to encryptVault.
C8_EnvelopeContents ==
    Sealed => EnvelopeText(JSONparse(exp.out.text).val, exp.out.plainText)

\* a vault of a login and a secure note, changed after its creation, was
\* sealed with the category filter on: the envelope counts one entry
C8_Witness ==
    /\ Sealed
    /\ exp.options.categories = {LOGIN}
    /\ Len(Get(vault, S_entries).v) = 2
    /\ Same(Get(Get(JSONparse(exp.out.text).val, S_metadata), S_entryCount),
            JNum(1))
    /\ ~Same(Get(vault, S_createdAt), Get(vault, S_updatedAt))

\* C10: after n >= 1 round trips through keyToString and stringToKey the key
\* has the exported key material of the derived key k: no stringToKey call
\* was rejected, the two exports are equal, data encrypted with k decrypts
\* with the result and data encrypted with the result decrypts with k.
C10_KeyStringRoundTrip ==
    /\ key.trips >= 1 =>
           /\ ~key.threw /\ key.phase # "failed"
           /\ Same(exportKey(key.current), exportKey(key.original))
    /\ key.box # NoBox => key.box.opened

\* a key that made all its round trips closed a box the derived key opened
C10_Witness ==
    /\ key.trips = MaxTrips
    /\ key.box.by = "current" /\ key.box.opened
    /\ key.original = deriveKey(<<"p", "w">>, <<1, 2, 3, 4>>)

\* C11: stringToKey rejects every key string that is no base64 text, whose
\* text is no JSON, or whose JSON is no AES key, with an Error whose message
\* begins 'Failed to deserialize key'; it resolves to no key for such a
\* string.
C11_BadKeyStringRejected ==
    (key.phase = "read" /\ key.keyString \in NotBase64 \cup NotJson \cup NotKey)
        => /\ key.threw
           /\ key.error = E_Deserialize
           /\ key.current = NoCryptoKey

\* the valid base64 text of a JSON object that is no jwk was rejected
C11_Witness ==
    /\ key.phase = "read"
    /\ key.keyString = btoa(JSONstringify(JwkWith(S_kty, JStr(<<"R", "S", "A">>))))
    /\ key.threw /\ key.error = E_Deserialize

\* o has Date timestamps
HasDates(o) == Get(o, S_createdAt).t = "date" /\ Get(o, S_updatedAt).t = "date"
\* V is a vault with Date timestamps, at its own level and in every entry
VaultWithDates(V) ==
    /\ V.t = "obj" /\ HasDates(V)
    /\ Get(V, S_entries).t = "arr"
    /\ \A i \in DOMAIN Get(V, S_entries).v : HasDates(Get(V, S_entries).v[i])
\* none of these Dates is an Invalid Date
ValidDates(V) ==
    /\ ~HasInvalidDate(V)
    /\ \A i \in DOMAIN Get(V, S_entries).v : ~HasInvalidDate(Get(V, S_entries).v[i])

\* the timestamps of o and p are Dates of the same millisecond
SameDates(o, p) ==
    /\ HasDates(o) /\ HasDates(p)
    /\ Get(o, S_createdAt).v = Get(p, S_createdAt).v
    /\ Get(o, S_updatedAt).v = Get(p, S_updatedAt).v

\* back is deserializeVault(serializeVault(V)), again is serializeVault(back)
SerializedBack(V, serialized, back, again) ==
    /\ SameDates(back, V)
    /\ Len(Get(back, S_entries).v) = Len(Get(V, S_entries).v)
    /\ \A i \in DOMAIN Get(V, S_entries).v :
           SameDates(Get(back, S_entries).v[i], Get(V, S_entries).v[i])
    /\ ~again.threw /\ again.val = serialized
SerializedOnce(V, serialized) ==
    /\ ~serialized.threw
    /\ SerializedBack(V, serialized.val, deserializeVault(serialized.val),
                      serializeVault(deserializeVault(serialized.val)))
SerializeRoundTrip(V) == SerializedOnce(V, serializeVault(V))

\* C12, as stated: for every vault V with Date timestamps, serializeVault
\* returns, deserializeVault of its output has the Dates of V to the
\* millisecond, and serializing that again gives the same output.
C12_EveryDateRoundTrips ==
    /\ VaultWithDates(vault) => SerializeRoundTrip(vault)
    /\ (imp.done /\ VaultWithDates(imp.res.vault))
          => SerializeRoundTrip(imp.res.vault)

\* C12, amended: the same for every vault whose timestamps are valid Dates
\* (serializeVault throws a RangeError on an Invalid Date).
C12_SerializeRoundTrip ==
    /\ (VaultWithDates(vault) /\ ValidDates(vault)) => SerializeRoundTrip(vault)
    /\ (imp.done /\ VaultWithDates(imp.res.vault) /\ ValidDates(imp.res.vault))
          => SerializeRoundTrip(imp.res.vault)

\* a vault of two entries made at different milliseconds, and an imported
\* vault with an entry, both with valid Dates
C12_Witness ==
    /\ Len(Get(vault, S_entries).v) = MaxEntries
    /\ VaultWithDates(vault) /\ ValidDates(vault)
    /\ ~Same(Get(vault, S_createdAt), Get(vault, S_updatedAt))
    /\ imp.done /\ VaultWithDates(imp.res.vault) /\ ValidDates(imp.res.vault)
    /\ imp.res.importedCount > 0

\* the export was asked in a plaintext format
PlainFormat == exp.options.format \in {"json", "csv"}
\* the export was asked in the vault format with encrypted true, which it is
\* when options.encrypted is left out
EncryptedFormat ==
    /\ exp.options.format = "vault"
    /\ (exp.options.encrypted.t = "undef" \/ exp.options.encrypted.v)

\* parsed is the parse of a text that is an object with data, salt, iv, version
ShapedLikeEnvelope(parsed) ==
    /\ parsed.ok /\ parsed.val.t = "obj"
    /\ {S_data, S_salt, S_iv, S_version} \subseteq Keys(parsed.val)
EnvelopeShaped(out) == ~out.threw /\ ShapedLikeEnvelope(JSONparse(out.text))

\* env carries nothing of the vault but the cipher text and the metadata
NothingOutsideData(env) ==
    /\ Keys(env) = {S_data, S_salt, S_iv, S_version, S_metadata}
    /\ Get(env, S_metadata).t = "obj"
    /\ Keys(Get(env, S_metadata))
           = {S_name, S_createdAt, S_lastModified, S_entryCount, S_checksum}
    /\ Same(Get(env, S_data), JStr(CipherText(Len(sealed))))

\* C13: exportVault with format 'json' or 'csv' never calls encryptVault and
\* never asks for a password, whatever options.encrypted and masterPassword
\* are; what it returns is shaped like an envelope (data, salt, iv, version)
\* only when the format is 'vault' and encrypted is true, and then nothing of
\* the entries is in it outside data.
C13_PlaintextBypassesCipher ==
    exp.done =>
        /\ PlainFormat => /\ ~exp.out.encrypts /\ sealed = <<>>
                          /\ ~exp.out.threw
        /\ EnvelopeShaped(exp.out) =>
               /\ EncryptedFormat /\ exp.out.encrypts
               /\ NothingOutsideData(JSONparse(exp.out.text).val)
        /\ (EncryptedFormat /\ ~exp.out.threw) => EnvelopeShaped(exp.out)

\* a json export of two entries asked with encrypted true and no password
\* returned the vault in clear
C13_Witness ==
    /\ exp.done /\ exp.options.format = "json"
    /\ exp.options.encrypted = JBool(TRUE) /\ exp.masterPassword = NoPassword
    /\ ~exp.out.threw /\ ~EnvelopeShaped(exp.out)
    /\ Len(Get(vault, S_entries).v) = MaxEntries

\* the text that holds the entries of an export: what was given to
\* encryptVault when the export is encrypted, what was returned otherwise
PayloadText(out) == IF out.encrypts THEN out.plainText ELSE out.text

\* the export of the same vault with the same arguments but includePasswords
WithPasswords ==
    exportVault(vault, exp.masterPassword,
                [exp.options EXCEPT !.includePasswords = TRUE],
                CipherText(Len(sealed)), now)

\* entries without has no password and is entries with in every other field
StrippedEntries(without, with) ==
    /\ Len(without) = Len(with)
    /\ \A i \in DOMAIN without :
         /\ S_password \notin Keys(without[i])
         /\ Same(without[i], WithoutPassword(with[i]))

\* the same for two CSV rows: the third column is the password
StrippedRow(without, with) ==
    /\ Len(without) = Len(CsvHeaders) /\ Len(with) = Len(CsvHeaders)
    /\ \A j \in DOMAIN without :
         IF CsvHeaders[j] = S_password THEN without[j] = <<>>
         ELSE without[j] = with[j]
StrippedRows(without, with) ==
    /\ Len(without) = Len(with)
    /\ without[1] = with[1]
    /\ \A i \in 2..Len(without) :
         without[i] # <<>> =>
             StrippedRow(parseCSVLine(without[i]), parseCSVLine(with[i]))

Stripped(format, without, with) ==
    IF format = "csv"
    THEN StrippedRows(SplitOn(without, "\n"), SplitOn(with, "\n"))
    ELSE StrippedEntries(Get(JSONparse(without).val, S_entries).v,
                         Get(JSONparse(with).val, S_entries).v)

\* C14: in every format, what exportVault exports with includePasswords =
\* false has no password of the vault in any entry, and every other field of
\* every entry is as in the export with includePasswords = true.
C14_PasswordsStripped ==
    (exp.done /\ ~exp.options.includePasswords /\ ~exp.out.threw)
        => Stripped(exp.options.format, PayloadText(exp.out),
                    PayloadText(WithPasswords))

\* an entry with a password is in the vault
HasPassword == \E i \in DOMAIN Get(vault, S_entries).v :
                   Truthy(Get(Get(vault, S_entries).v[i], S_password))

\* a vault of two entries, one at least with a password, was exported to CSV
\* without passwords, and the export with passwords is another text
C14_Witness ==
    /\ exp.done /\ ~exp.options.includePasswords /\ ~exp.out.threw
    /\ exp.options.format = "csv"
    /\ Len(Get(vault, S_entries).v) = MaxEntries /\ HasPassword
    /\ PayloadText(exp.out) # PayloadText(WithPasswords)

\* the file is the CSV export, with passwords, of the vault
CsvExported ==
    /\ exp.done /\ ~exp.out.threw /\ file.origin = "export"
    /\ exp.options.format = "csv" /\ exp.options.includePasswords
    /\ exp.masterPassword = NoPassword

\* the entry back has the CSV fields of the entry of the vault
SameCsvEntry(back, entry) ==
    /\ \A f \in {S_title, S_username, S_password, S_url, S_notes, S_category} :
           Same(Prop(back, f), Prop(entry, f))
    /\ Same(Prop(back, S_tags), Prop(entry, S_tags))

\* res holds every entry of entries
AllBack(res, entries) ==
    /\ res.importedCount = Len(entries)
    /\ res.skippedCount = 0
    /\ Get(res.vault, S_entries).t = "arr"
    /\ Len(Get(res.vault, S_entries).v) = Len(entries)
    /\ \A i \in DOMAIN entries :
           SameCsvEntry(Get(res.vault, S_entries).v[i], entries[i])

\* C15: importVault of the CSV export, with passwords, of a vault V returns
\* importedCount = |V.entries|, skippedCount = 0 and a vault of |V.entries|
\* entries with the title, username, password, url, notes, category and tags
\* of the entries of V.
C15_CsvRoundTrip ==
    (CsvExported /\ imp.done) => AllBack(imp.res, Get(vault, S_entries).v)

\* value holds a comma, a quote or a line break
NeedsQuotes(value) == \E i \in DOMAIN value : value[i] \in {",", "\"", "\n", "\r"}
RECURSIVE Doubled(_)
\* value with every quote written twice
Doubled(value) ==
    IF value = <<>> THEN <<>>
    ELSE (IF Head(value) = "\"" THEN <<"\"", "\"">> ELSE <<Head(value)>>)
         \o Doubled(Tail(value))
\* every field is its value, in quotes with its quotes doubled exactly when
\* the value needs quotes
EscapedAsCsv ==
    /\ Len(csv.fields) = Len(csv.values)
    /\ \A i \in DOMAIN csv.values :
         csv.fields[i] = IF NeedsQuotes(csv.values[i])
                         THEN <<"\"">> \o Doubled(csv.values[i]) \o <<"\"">>
                         ELSE csv.values[i]

\* C16, as stated: for every list of values over an alphabet with comma,
\* quote and line breaks, parseCSVLine of the comma-join of their escapeCSV
\* is the list, and escapeCSV quotes a value exactly when it holds one of
\* these characters.
C16_EveryRowRoundTrips ==
    /\ csv.phase \in {"line", "parsed"} => EscapedAsCsv
    /\ csv.phase = "parsed" => csv.parsed = csv.values

\* C16, amended: the same for every list of at least one value (the join of
\* no value is the empty line, which parseCSVLine reads as one empty value).
C16_CsvQuotingRoundTrip ==
    /\ csv.phase \in {"line", "parsed"} => EscapedAsCsv
    /\ (csv.phase = "parsed" /\ csv.values # <<>>) => csv.parsed = csv.values
    /\ (csv.phase = "parsed" /\ csv.values = <<>>) => csv.parsed = <<<<>>>>

\* a row of two values, one a quote followed by a comma, the other a line
\* break, was written and read back
C16_Witness ==
    /\ csv.phase = "parsed"
    /\ csv.values = << <<"\"", ",">>, <<"\n">> >>
    /\ csv.line = <<"\"", "\"", "\"", ",", "\"", ",", "\"", "\n", "\"">>
    /\ csv.parsed = csv.values

\* the file is the plaintext JSON export, with passwords, of the vault
JsonExported ==
    /\ exp.done /\ ~exp.out.threw /\ file.origin = "export"
    /\ exp.options.format = "json" /\ exp.options.includePasswords
    /\ exp.options.encrypted = JBool(FALSE) /\ exp.masterPassword = NoPassword
\* the file is JSON.stringify(vault.entries)
EntriesWritten == file.origin = "entries"

\* res holds as many entries as entries, none skipped, and no error
AllImported(res, entries) ==
    /\ res.importedCount = Len(entries)
    /\ res.skippedCount = 0
    /\ res.errors = <<>>
    /\ Get(res.vault, S_entries).t = "arr"
    /\ Len(Get(res.vault, S_entries).v) = Len(entries)

\* C17: importVault of the plaintext JSON export, with passwords, of a vault
\* V, and importVault of JSON.stringify(V.entries), each return importedCount
\* = |V.entries|, skippedCount = 0, no error and a vault of |V.entries|
\* entries.
C17_JsonRoundTrip ==
    (imp.done /\ imp.masterPassword = NoPassword
     /\ (JsonExported \/ EntriesWritten))
        => AllImported(imp.res, Get(vault, S_entries).v)

\* the import ran to its end and returned a vault
Completed(res) == res.vault # EmptyVault /\ ~FailedAsAWhole(res)

\* the values in progress are percentages that never decrease
Ascending(progress) ==
    /\ \A i \in DOMAIN progress : progress[i] \in 0..100
    /\ \A i \in 1..(Len(progress) - 1) : progress[i] <= progress[i + 1]
LastIs100(progress) == progress # <<>> /\ progress[Len(progress)] = 100

\* C18: the values an importVault call gives to onProgress, on every path,
\* are within 0..100 and never decrease; the last one is 100 exactly when the
\* import ran to its end and returned a vault, and 100 is never given by an
\* import that fails as a whole.
C18_ProgressOrder ==
    imp.done =>
        /\ Ascending(imp.res.progress)
        /\ LastIs100(imp.res.progress) <=> Completed(imp.res)
        /\ FailedAsAWhole(imp.res) =>
               \A i \in DOMAIN imp.res.progress : imp.res.progress[i] # 100

\* the import of an envelope of two entries reported 10, 50, 50, 75, 100
C18_Witness ==
    /\ imp.done /\ Completed(imp.res)
    /\ imp.res.progress = <<10, 50, 50, 75, 100>>
    /\ imp.res.importedCount = MaxEntries

\* entry has every field the data supply
SuppliedFields(entry, entryData) ==
    \A f \in Keys(entryData) : Same(Get(entry, f), Get(entryData, f))

\* res.vault is before and one more entry, made of entryData, at the end
OneMore(res, before, entryData) ==
    /\ Len(Get(res.vault, S_entries).v) = Len(Get(before, S_entries).v) + 1
    /\ \A i \in DOMAIN Get(before, S_entries).v :
           Same(Get(res.vault, S_entries).v[i], Get(before, S_entries).v[i])
    /\ SuppliedFields(Get(res.vault, S_entries).v[Len(Get(res.vault, S_entries).v)],
                      entryData)
    /\ Same(res.entry,
            Get(res.vault, S_entries).v[Len(Get(res.vault, S_entries).v)])

\* the data have no title, or an empty one
NoTitle(entryData) ==
    Get(entryData, S_title).t = "undef" \/ Get(entryData, S_title) = JStr(<<>>)

\* C20: addEntry with valid data returns validation.isValid = true and a
\* vault whose entries are the previous ones, in order, and one new entry
\* with the fields supplied; with invalid data (no title, an empty title) it
\* returns isValid = false, at least one error and the same vault; the vault
\* passed in keeps its entries in both cases.
C20_AddEntry ==
    add.done =>
        /\ IF createVaultEntrySchema(add.entryData)
           THEN /\ add.res.validation.isValid
                /\ OneMore(add.res, add.before, add.entryData)
           ELSE /\ ~add.res.validation.isValid
                /\ Len(add.res.validation.errors) >= 1
                /\ Same(add.res.vault, add.before)
        /\ NoTitle(add.entryData) => ~add.res.validation.isValid
        /\ Same(Get(add.res.input, S_entries), Get(add.before, S_entries))

\* a second entry was added to a vault of one, after which data without a
\* title were refused
C20_Witness ==
    /\ add.done /\ Get(add.entryData, S_title).t = "undef"
    /\ ~add.res.validation.isValid
    /\ Len(Get(add.before, S_entries).v) = MaxEntries - 1
    /\ Len(Get(vault, S_entries).v) = MaxEntries - 1

\* what the call c returns when it runs alone on the vault, encryptVault
\* giving it the cipher text it got
ExportAlone(c) ==
    exportVault(ConcVault, calls[c].masterPassword, calls[c].options,
                calls[c].cipherText, now)
ImportAlone(c) ==
    importVault(calls[c].data, calls[c].masterPassword, sealed,
                generateId(nextId), now)

OpIs(name) == op.name = name
\* the entries of a vault
EntriesOf(v) == Get(v, S_entries).v
\* the last call is an updateEntry that succeeded
UpdateSucceeded == OpIs("updateEntry") /\ op.res.validation.isValid
\* where the entry that the last call names is in the vault it was given
Targeted == findIndex(EntriesOf(op.before), op.entryId)

\* updated is original with nothing changed but what updates holds and
\* updatedAt: id and createdAt are the original's whatever updates holds
OnlyUpdated(original, updates, updated) ==
    /\ Get(updated, S_id) = Get(original, S_id)
    /\ Get(updated, S_createdAt) = Get(original, S_createdAt)
    /\ \A k \in Keys(original) \ (Keys(updates) \cup {S_updatedAt}) :
          Get(updated, k) = Get(original, k)
    /\ \A k \in Keys(updated) : k \in Keys(original) \cup Keys(updates)

\* C21: a successful updateEntry(vault, id, updateData) returns a vault with
\* as many entries in the same order, every other entry identical, and the
\* targeted entry with its id and its createdAt, whatever id and createdAt
\* updateData holds, and with the previous value of every field that
\* updateData does not hold (updatedAt apart, which the call sets); the
\* entry-level updateEntry and updateEntryData, called on the targeted
\* entry with the same data, keep the same fields
C21_UpdateEntryFrame ==
    /\ UpdateSucceeded =>
          /\ Len(EntriesOf(op.res.vault)) = Len(EntriesOf(op.before))
          /\ \A i \in DOMAIN EntriesOf(op.before) :
                i # Targeted =>
                   EntriesOf(op.res.vault)[i] = EntriesOf(op.before)[i]
          /\ EntriesOf(op.res.vault)[Targeted] = op.res.entry
          /\ OnlyUpdated(EntriesOf(op.before)[Targeted], op.data, op.res.entry)
    /\ (OpIs("updateEntry") /\ Targeted # 0) =>
          /\ OnlyUpdated(EntriesOf(op.before)[Targeted], op.data,
                         entry_updateEntry(EntriesOf(op.before)[Targeted],
                                           op.data, op.at))
          /\ OnlyUpdated(EntriesOf(op.before)[Targeted], op.data,
                         updateEntryData(EntriesOf(op.before)[Targeted],
                                         op.data, op.at))

\* the first of two entries was updated with data that hold an id and a
\* createdAt of their own
C21_Witness ==
    /\ UpdateSucceeded
    /\ Len(EntriesOf(op.before)) = 2
    /\ Targeted = 1
    /\ Get(op.data, S_id) = UnknownId
    /\ Get(op.data, S_createdAt) = JDate(0)
    /\ Get(op.res.entry, S_title) = JStr(<<"Z">>)

\* the time value of a Date field of an entry or of a vault
TimeOf(o, k) == Get(o, k).v

\* C22: every successful updateEntry returns an entry whose updatedAt is
\* strictly greater than the updatedAt the entry had when the call was
\* made, and so does updateEntryData on every entry, also when the entry
\* was created or updated within the millisecond the clock shows
C22_UpdatedAtAdvances ==
    /\ UpdateSucceeded =>
          TimeOf(op.res.entry, S_updatedAt)
             > TimeOf(EntriesOf(op.before)[Targeted], S_updatedAt)
    /\ \A i \in DOMAIN EntriesOf(vault) : \A updates \in UpdateData :
          TimeOf(updateEntryData(EntriesOf(vault)[i], updates, now), S_updatedAt)
             > TimeOf(EntriesOf(vault)[i], S_updatedAt)

\* the last call names no entry of the vault it was given
NoneTargeted ==
    \A i \in DOMAIN op.entryIds :
       findIndex(EntriesOf(op.before), op.entryIds[i]) = 0

\* C23: updateEntry with an id no entry has returns isValid false with the
\* error 'Entry not found' and the vault it was given; updateEntry with
\* data that make the entry invalid returns isValid false and the vault it
\* was given; deleteEntry with an id no entry has and bulkDeleteEntries
\* with ids none of which an entry has return a vault equal to the one
\* given in every field, updatedAt included
C23_NoMatchNoChange ==
    /\ OpIs("updateEntry") /\ Targeted = 0 =>
          /\ ~op.res.validation.isValid
          /\ \E i \in DOMAIN op.res.validation.errors :
                op.res.validation.errors[i] = E_EntryNotFound
          /\ op.res.vault = op.before
    /\ (/\ OpIs("updateEntry") /\ Targeted # 0
        /\ ~createVaultEntrySchema(Assign(EntriesOf(op.before)[Targeted],
                                          op.data.v))) =>
          /\ ~op.res.validation.isValid
          /\ op.res.vault = op.before
    /\ OpIs("deleteEntry") /\ Targeted = 0 => op.res.vault = op.before
    /\ OpIs("bulkDeleteEntries") /\ NoneTargeted => op.res.vault = op.before

\* deleteEntry was called with an id no entry has, on a vault that holds an
\* entry and was last changed at another time than the clock shows
C23_Witness ==
    /\ OpIs("deleteEntry")
    /\ Targeted = 0
    /\ Len(EntriesOf(op.before)) > 0
    /\ op.at # TimeOf(op.before, S_updatedAt)

\* createVaultEntrySchema accepts every element of the list
AllValid(entriesData) ==
    \A i \in DOMAIN entriesData : createVaultEntrySchema(entriesData[i])

\* C24: bulkAddEntries is all-or-nothing.  When every element is valid, the
\* returned vault holds the previous entries followed by one new entry for
\* each element, in the order of the input, and entries and
\* validationResults are as long as entriesData; when an element is
\* invalid, the returned vault equals the one given, entries is empty and
\* validationResults holds one result for each element, one of them at
\* least with isValid false.  The vault given is not modified.
C24_BulkAddAllOrNothing ==
    OpIs("bulkAddEntries") =>
        /\ Len(op.res.validationResults) = Len(op.entriesData)
        /\ IF AllValid(op.entriesData)
           THEN /\ EntriesOf(op.res.vault)
                     = EntriesOf(op.before) \o op.res.entries
                /\ Len(op.res.entries) = Len(op.entriesData)
                /\ \A i \in DOMAIN op.entriesData :
                      /\ SuppliedFields(op.res.entries[i], op.entriesData[i])
                      /\ op.res.validationResults[i].isValid
           ELSE /\ op.res.vault = op.before
                /\ op.res.entries = <<>>
                /\ \E i \in DOMAIN op.res.validationResults :
                      ~op.res.validationResults[i].isValid
        /\ op.res.input = op.before

\* a list of valid data was added to a vault that held an entry already
C24_Witness ==
    /\ OpIs("bulkAddEntries")
    /\ AllValid(op.entriesData)
    /\ Len(op.entriesData) >= 1
    /\ Len(EntriesOf(op.before)) >= 1
    /\ Len(EntriesOf(vault)) = Len(EntriesOf(op.before)) + Len(op.entriesData)

\* the places of a vault's entries that have the id
PlacesOf(v, id) == {i \in DOMAIN EntriesOf(v) : Get(EntriesOf(v)[i], S_id) = id}

\* C28: in every vault reached from createVault by addEntry,
\* bulkAddEntries, updateEntry, deleteEntry and bulkDeleteEntries, with
\* generateId handing out a new identifier at each call, no two entries
\* have the same id; getEntry(vault, id) returns the one entry that has
\* the id, or null when there is none; a deleteEntry that finds the entry
\* returns a vault with exactly one entry less
C28_UniqueIds ==
    /\ \A i, j \in DOMAIN EntriesOf(vault) :
          i # j => Get(EntriesOf(vault)[i], S_id) # Get(EntriesOf(vault)[j], S_id)
    /\ \A id \in TargetIds :
          IF PlacesOf(vault, id) = {}
          THEN getEntry(vault, id) = JNull
          ELSE \A i \in PlacesOf(vault, id) :
                  getEntry(vault, id) = EntriesOf(vault)[i]
    /\ OpIs("deleteEntry") /\ Targeted # 0 =>
          Len(EntriesOf(op.res.vault)) = Len(EntriesOf(op.before)) - 1

\* the one entry of a vault was deleted, after generateId had handed out
\* two identifiers for entries
C28_Witness ==
    /\ OpIs("deleteEntry")
    /\ Targeted # 0
    /\ Len(EntriesOf(op.before)) = 1
    /\ EntriesOf(vault) = <<>>
    /\ nextId > 3

\* every entry of the vault has createdAt <= updatedAt
EntriesCreatedBeforeUpdated ==
    \A i \in DOMAIN EntriesOf(vault) :
       TimeOf(EntriesOf(vault)[i], S_createdAt)
          <= TimeOf(EntriesOf(vault)[i], S_updatedAt)
\* the vault has createdAt <= updatedAt
VaultCreatedBeforeUpdated ==
    TimeOf(vault, S_createdAt) <= TimeOf(vault, S_updatedAt)
\* the vault's updatedAt is not before the updatedAt of any of its entries
VaultUpdatedLast ==
    \A i \in DOMAIN EntriesOf(vault) :
       TimeOf(vault, S_updatedAt) >= TimeOf(EntriesOf(vault)[i], S_updatedAt)

\* C29: with a clock that never goes back, every entry of the vault has
\* createdAt <= updatedAt, the vault has createdAt <= updatedAt, and the
\* vault's updatedAt is greater than or equal to the updatedAt of each of
\* its entries
C29_TimestampOrder ==
    /\ EntriesCreatedBeforeUpdated
    /\ VaultCreatedBeforeUpdated
    /\ VaultUpdatedLast

\* the texts of an entry that a query is looked for in: title, username,
\* url, notes, each tag, the name and the value of each custom field
SearchableTexts(entry) ==
    {Get(entry, f).v : f \in {f \in {S_title, S_username, S_url, S_notes} :
                                 Get(entry, f).t = "str"}}
    \cup {Elements(Get(entry, S_tags))[i].v :
             i \in DOMAIN Elements(Get(entry, S_tags))}
    \cup UNION {{Get(Elements(Get(entry, S_customFields))[i], S_name).v,
                 Get(Elements(Get(entry, S_customFields))[i], S_value).v} :
                   i \in DOMAIN Elements(Get(entry, S_customFields))}

\* text as it is compared: as it is when caseSensitive is set, and with
\* its capitals turned to small letters otherwise
Folded(text, options) ==
    IF Get(options, S_caseSensitive) = JBool(TRUE) THEN text
    ELSE toLowerCase(text)

\* some searchable text of the entry contains the query, or equals it when
\* exactMatch is set
QueryFound(entry, options) ==
    \E text \in SearchableTexts(entry) :
       IF Get(options, S_exactMatch) = JBool(TRUE)
       THEN Folded(text, options) = Folded(Get(options, S_query).v, options)
       ELSE includes(Folded(text, options),
                     Folded(Get(options, S_query).v, options))

\* the entry satisfies every criterion of the options; byCategory and
\* byTag tell whether the categories and the tags of the options count as
\* criteria
Satisfies(entry, options, byCategory, byTag) ==
    /\ byCategory =>
          \E i \in DOMAIN Get(options, S_categories).v :
             Get(options, S_categories).v[i] = Get(entry, S_category)
    /\ byTag =>
          \E i \in DOMAIN Get(options, S_tags).v :
             \E j \in DOMAIN Get(entry, S_tags).v :
                Get(options, S_tags).v[i] = Get(entry, S_tags).v[j]
    /\ Get(options, S_favorites).t # "undef" =>
          Get(entry, S_favorite) = Get(options, S_favorites)
    /\ (Get(options, S_query).t = "str" /\ Get(options, S_query).v # <<>>) =>
          QueryFound(entry, options)

\* a list of the options is given, empty or not
Given(options, k) == Get(options, k).t = "arr"
\* a list of the options is given and holds an element
GivenNonEmpty(options, k) == Given(options, k) /\ Get(options, k).v # <<>>

\* C25 as stated: searchEntries returns exactly the entries of the vault,
\* in the order of the vault, that satisfy every criterion the options
\* supply: the category is one of options.categories, a tag is one of
\* options.tags, favorite equals options.favorites, a non-empty query is
\* contained in (with exactMatch, equal to) a searchable text, capitals
\* and small letters alike unless caseSensitive is set; totalCount is the
\* number of entries returned
C25_SearchSuppliedCriteria ==
    OpIs("searchEntries") =>
        /\ op.res.entries
             = SelectSeq(EntriesOf(op.before),
                         LAMBDA entry :
                             Satisfies(entry, op.data,
                                       Given(op.data, S_categories),
                                       Given(op.data, S_tags)))
        /\ op.res.totalCount = Len(op.res.entries)

\* C25 amended: the same, a list of categories or of tags being a
\* criterion only when it holds an element; with an empty query and no
\* criterion every entry is returned
C25_SearchExact ==
    OpIs("searchEntries") =>
        /\ op.res.entries
             = SelectSeq(EntriesOf(op.before),
                         LAMBDA entry :
                             Satisfies(entry, op.data,
                                       GivenNonEmpty(op.data, S_categories),
                                       GivenNonEmpty(op.data, S_tags)))
        /\ op.res.totalCount = Len(op.res.entries)
        /\ (/\ ~Truthy(Get(op.data, S_query))
            /\ ~GivenNonEmpty(op.data, S_categories)
            /\ ~GivenNonEmpty(op.data, S_tags)
            /\ Get(op.data, S_favorites).t = "undef") =>
              op.res.entries = EntriesOf(op.before)

\* a search with a query in capitals, a list of categories and a list of
\* tags returned one entry of three and left two out
C25_Witness ==
    /\ OpIs("searchEntries")
    /\ Get(op.data, S_query) = JStr(<<"A", "B">>)
    /\ GivenNonEmpty(op.data, S_categories)
    /\ GivenNonEmpty(op.data, S_tags)
    /\ Len(EntriesOf(op.before)) = 3
    /\ op.res.totalCount = 1

\* the file is a plaintext JSON text that exportVault returned: format
\* 'json', or format 'vault' with encrypted false
PlaintextExported ==
    /\ exp.done /\ ~exp.out.threw /\ file.origin = "export"
    /\ exp.options.format \in {"json", "vault"}
    /\ ~exp.out.encrypts

\* C26: importVault handles every plaintext JSON text that exportVault
\* returned on the JSON import path, never on the path of the encrypted
\* envelope, and imports every entry of the vault, whatever strings the
\* name, the entries, the tags, the notes and the custom fields hold
C26_DispatchSound ==
    (imp.done /\ PlaintextExported) =>
        /\ imp.res = importJsonVault(file.text, generateId(nextId), now)
        /\ AllImported(imp.res, EntriesOf(vault))

\* the entries a vault object holds
EntryCount(vaultData) == Len(Elements(Get(vaultData, S_entries)))
\* the entries a JSON document holds: its elements when it is a list, the
\* entries of the vault object otherwise
ParsedCandidates(parsedData) ==
    IF parsedData.val.t = "arr" THEN Len(parsedData.val.v)
    ELSE EntryCount(parsedData.val)
\* the data rows of a CSV text: its non-empty lines, the header apart
CsvCandidates(data) ==
    Len(SelectSeq(WithoutCarriageReturns(SplitOn(data, "\n")),
                  LAMBDA l : trim(l) # <<>>)) - 1
\* the entries that an import of data finds to look at: the decrypted
\* entries of an envelope, the parsed entries of a JSON text, the data
\* rows of a CSV text
Candidates(data, masterPassword) ==
    IF startsWith(data, <<"{">>)
       /\ includes(data, Quote(S_data)) /\ includes(data, Quote(S_version))
    THEN EntryCount(JSONparse(decryptVault(Get(JSONparse(data).val, S_data).v,
                                           masterPassword.v, sealed).text).val)
    ELSE IF startsWith(data, <<"{">>) \/ startsWith(data, <<"[">>)
    THEN ParsedCandidates(JSONparse(data))
    ELSE CsvCandidates(data)

\* C27: for every import that runs to its end, on the path of the
\* envelope, of the JSON object, of the JSON list or of CSV, importedCount
\* is the number of entries of result.vault, importedCount + skippedCount
\* is the number of candidate entries of the input, every entry of
\* result.vault passes validateVaultEntry, and result.errors holds at least
\* one item for each candidate skipped
C27_ImportAccounting ==
    (imp.done /\ Completed(imp.res)) =>
        /\ imp.res.importedCount = Len(EntriesOf(imp.res.vault))
        /\ imp.res.importedCount + imp.res.skippedCount
             = Candidates(file.text, imp.masterPassword)
        /\ \A i \in DOMAIN EntriesOf(imp.res.vault) :
              /\ ~validateVaultEntry(EntriesOf(imp.res.vault)[i]).threw
              /\ validateVaultEntry(EntriesOf(imp.res.vault)[i]).isValid
        /\ Len(imp.res.errors) >= imp.res.skippedCount

\* an import ran to its end with an entry imported and two candidates
\* skipped
C27_Witness ==
    /\ imp.done /\ Completed(imp.res)
    /\ imp.res.importedCount = 1
    /\ imp.res.skippedCount = 2

\* the file is the envelope of the export with its metadata altered, and
\* still an envelope that vaultFileSchema accepts
MetadataDiffers ==
    /\ file.origin \in MetadataAlterations
    /\ vaultFileSchema(JSONparse(file.text).val)
    /\ vaultFileSchema(JSONparse(exp.out.text).val)
    /\ Get(JSONparse(file.text).val, S_data)
         = Get(JSONparse(exp.out.text).val, S_data)

\* C30: of two envelopes that vaultFileSchema accepts, with the same data
\* and with metadata that differ in name, createdAt, lastModified,
\* entryCount or checksum, or that one of them lacks, importVault returns
\* the same result under the same password: the same vault, counts and
\* errors; an entryCount or a checksum that disagrees with the decrypted
\* content adds no error
C30_MetadataIgnored ==
    (imp.done /\ MetadataDiffers) =>
        /\ imp.res = importVault(exp.out.text, imp.masterPassword, sealed,
                                 generateId(nextId), now)
        /\ SamePassword(imp.masterPassword, exp.masterPassword) =>
              /\ imp.res.errors = <<>>
              /\ Completed(imp.res)

\* an envelope of two entries whose entryCount and checksum disagree with
\* its content was imported under the password of the export
C30_Witness ==
    /\ imp.done /\ MetadataDiffers
    /\ file.origin = "counts"
    /\ SamePassword(imp.masterPassword, exp.masterPassword)
    /\ imp.res.importedCount = MaxEntries

====
